---- MODULE Spec2Model ----
(***************************************************************************)
(* Model of the muwanx MuJoCo scene utilities:                             *)
(*   src/src/core/mujoco/runtime/utils/mujocoScene.ts   (variant "core")   *)
(*   src/src/mujoco_wasm/runtime/utils/mujocoScene.js   (variant "wasm")   *)
(*                                                                         *)
(* A string is a sequence of tokens.  A token is a run of characters that  *)
(* the code never looks inside: "/", ".", " " are single characters, the   *)
(* others ("dir", "public", "http:", ".png", ...) are words.  Every regex  *)
(* and startsWith/endsWith test of the source is evaluated on the tokens.  *)
(***************************************************************************)
EXTENDS Integers, Sequences, FiniteSets, TLC

VARIABLES
  variant,     \* which of the two source files is running: "core" or "wasm"
  env,         \* what this run's callers, collector and server may do
  memo,        \* sceneDownloadPromises: set of <<key, batch id>>
  batches,     \* the download promises (async IIFE bodies), in creation order
  calls,       \* the downloadExampleScenesFolder invocations, in call order
  fs,          \* mujoco.FS below /working: path -> "dir" | "binary" | "text"
  parent,      \* the destination of loadSceneFromURL: mjModel, mjData, scene
  natives,     \* the MjModel / MjData objects created so far, with their delete() calls
  build,       \* the running (or last) loadSceneFromURL call
  graph,       \* the locals of the scene-graph part of loadSceneFromURL
  decode,      \* the running (or last) createTexture call
  target,      \* the THREE.Vector3 / Quaternion handed to the coordinate functions
  assembly,    \* the buffers of the mesh case of the geometry switch
  drag         \* the fields of the DragStateManager, its arrow and its controls

vars == <<variant, env, memo, batches, calls, fs, parent, natives, build,
          graph, decode, target, assembly, drag>>

(***************************************************************************)
(* Bounds                                                                  *)
(***************************************************************************)
MaxCalls == 2
MaxManifest == 2
MaxBuilds == 2
MaxBodies == 2
MaxGeoms == 2
MaxLights == 1
MaxWidth == 2
MaxCoordinate == 1

(***************************************************************************)
(* Strings                                                                 *)
(***************************************************************************)
StartsWith(s, p) == Len(s) >= Len(p) /\ SubSeq(s, 1, Len(p)) = p

Drop(s, n) == SubSeq(s, n + 1, Len(s))

RECURSIVE TrimStart(_)
TrimStart(s) == IF s # <<>> /\ Head(s) = " " THEN TrimStart(Tail(s)) ELSE s

RECURSIVE TrimEnd(_)
TrimEnd(s) ==
  IF s # <<>> /\ s[Len(s)] = " " THEN TrimEnd(SubSeq(s, 1, Len(s) - 1)) ELSE s

\* String.prototype.trim
Trim(s) == TrimEnd(TrimStart(s))

\* replace(/^(\.\/)+/, '')
RECURSIVE StripDotSlash(_)
StripDotSlash(s) ==
  IF StartsWith(s, <<".", "/">>) THEN StripDotSlash(Drop(s, 2)) ELSE s

\* replace(/^public\//, '')
StripPublic(s) == IF StartsWith(s, <<"public", "/">>) THEN Drop(s, 2) ELSE s

\* replace(/^[./]+/, '')
RECURSIVE StripLeadingDotsSlashes(_)
StripLeadingDotsSlashes(s) ==
  IF s # <<>> /\ Head(s) \in {".", "/"}
  THEN StripLeadingDotsSlashes(Tail(s)) ELSE s

\* if (cleaned.startsWith('/')) cleaned = cleaned.slice(1)
StripOneSlash(s) == IF StartsWith(s, <<"/">>) THEN Drop(s, 1) ELSE s

\* String.prototype.split('/'): the segments between the "/" tokens
RECURSIVE SplitFrom(_, _, _)
SplitFrom(s, cur, acc) ==
  IF s = <<>> THEN Append(acc, cur)
  ELSE IF Head(s) = "/" THEN SplitFrom(Tail(s), <<>>, Append(acc, cur))
  ELSE SplitFrom(Tail(s), Append(cur, Head(s)), acc)

Split(s) == SplitFrom(s, <<>>, <<>>)

\* Array.prototype.join('/')
RECURSIVE JoinPath(_)
JoinPath(parts) ==
  IF parts = <<>> THEN <<>>
  ELSE IF Len(parts) = 1 THEN parts[1]
  ELSE parts[1] \o <<"/">> \o JoinPath(Tail(parts))

RECURSIVE ResolveParts(_, _)
ResolveParts(parts, resolved) ==
  IF parts = <<>> THEN resolved
  ELSE LET part == Head(parts) IN
       IF part = <<>> \/ part = <<".">>
       THEN ResolveParts(Tail(parts), resolved)
       ELSE IF part = <<".", ".">>
       THEN ResolveParts(Tail(parts),
              IF resolved # <<>> THEN SubSeq(resolved, 1, Len(resolved) - 1)
              ELSE resolved)
       ELSE ResolveParts(Tail(parts), Append(resolved, part))

normalizePathSegments(path) ==
  IF path = <<>> THEN <<>> ELSE JoinPath(ResolveParts(Split(path), <<>>))

BINARY_EXTENSIONS == {".png", ".stl", ".skn", ".mjb", ".msh", ".npy"}

\* path.toLowerCase() ends with one of the binary extensions
isBinaryAsset(path) == path # <<>> /\ path[Len(path)] \in BINARY_EXTENSIONS

(***************************************************************************)
(* downloadExampleScenesFolder: path handling                              *)
(***************************************************************************)
\* const normalizedPath = scenePath.replace(/^[./]+/, '')
NormalizedScenePath(scenePath) == StripLeadingDotsSlashes(scenePath)

\* pathParts.slice(0, -1).join('/')
XmlDirectory(scenePath) ==
  LET pathParts == Split(NormalizedScenePath(scenePath))
  IN  JoinPath(SubSeq(pathParts, 1, Len(pathParts) - 1))

\* The key under which the download promise is memoized.
CacheKey(v, scenePath) ==
  IF v = "core" THEN NormalizedScenePath(scenePath) ELSE XmlDirectory(scenePath)

\* The filter without its https test.
IsLocalEntryHttpOnly(entry) ==
  /\ entry.isString
  /\ ~StartsWith(entry.text, <<"http:", "/", "/">>)

\* typeof asset === 'string' && !asset.startsWith('http://') && !asset.startsWith('https://')
IsLocalEntry(entry) ==
  /\ entry.isString
  /\ ~StartsWith(entry.text, <<"http:", "/", "/">>)
  /\ ~StartsWith(entry.text, <<"https:", "/", "/">>)

\* resolveAssetPath; null and '' are both the empty sequence (both are falsy)
resolveAssetPath(xmlDirectory, assetPath) ==
  IF assetPath = <<>> THEN <<>>
  ELSE IF Trim(assetPath) = <<>> THEN <<>>
  ELSE LET cleaned == StripOneSlash(StripPublic(StripDotSlash(Trim(assetPath))))
           normalized == normalizePathSegments(cleaned)
           joined == normalizePathSegments(xmlDirectory \o <<"/">> \o cleaned)
       IN  IF StartsWith(normalized, <<"examples", "/">>) THEN normalized
           ELSE IF joined # <<>> THEN joined
           ELSE normalized

\* The .map() callback of the core variant: no segment resolution, no join.
CoreAssetPath(assetPath) ==
  StripOneSlash(StripPublic(StripDotSlash(Trim(assetPath))))

NormalizedAssetPath(v, xmlDirectory, assetPath) ==
  IF v = "core" THEN CoreAssetPath(assetPath)
  ELSE resolveAssetPath(xmlDirectory, assetPath)

\* manifest.filter(...).map(...).filter(Boolean)
RECURSIVE LocalAssets(_, _, _)
LocalAssets(v, xmlDirectory, manifest) ==
  IF manifest = <<>> THEN <<>>
  ELSE LET entry == Head(manifest)
           rest == LocalAssets(v, xmlDirectory, Tail(manifest))
       IN  IF ~IsLocalEntry(entry) THEN rest
           ELSE LET np == NormalizedAssetPath(v, xmlDirectory, entry.text)
                IN  IF np = <<>> THEN rest
                    ELSE <<[originalPath |-> entry.text, normalizedPath |-> np]>> \o rest

\* The seenPaths loop: keep the first asset of every normalized path.
RECURSIVE UniqueFrom(_, _, _)
UniqueFrom(assets, seenPaths, uniqueAssets) ==
  IF assets = <<>> THEN uniqueAssets
  ELSE LET asset == Head(assets) IN
       IF asset.normalizedPath \in seenPaths
       THEN UniqueFrom(Tail(assets), seenPaths, uniqueAssets)
       ELSE UniqueFrom(Tail(assets), seenPaths \cup {asset.normalizedPath},
                       Append(uniqueAssets, asset))

UniqueAssets(v, xmlDirectory, manifest) ==
  UniqueFrom(LocalAssets(v, xmlDirectory, manifest), {}, <<>>)

(***************************************************************************)
(* downloadExampleScenesFolder: state                                      *)
(***************************************************************************)
Str(text) == [isString |-> TRUE, text |-> text]

\* A manifest entry that is not a string (a number, null, an object).
NotAString == [isString |-> FALSE, text |-> <<>>]

\* Every array of at most MaxManifest entries of the pool (the empty one too).
Manifests(pool) == UNION {[1..n -> pool] : n \in 0..MaxManifest}

\* An Error: what kind it is and the causes its message spells out.
NoError == [kind |-> "none", causes |-> {}, asset |-> 0]

\* new Error(`Both asset analysis and index.json fallback failed: ${fallbackError.message}`)
BothFailedError(analysisCause, fallbackCause) ==
  [kind |-> "bothFailed", causes |-> {fallbackCause}, asset |-> 0]

\* The rejection of fetch(fullPath) for uniqueAssets[i], passed on by Promise.all.
FetchRejectedError(i) == [kind |-> "fetchRejected", causes |-> {"network"}, asset |-> i]

MemoHas(key) == \E e \in memo : e[1] = key

MemoGet(key) == (CHOOSE e \in memo : e[1] = key)[2]

Settled(b) == batches[b].stage \in {"fulfilled", "rejected"}

PendingBatches == {b \in 1..Len(batches) : ~Settled(b)}

\* FS.analyzePath(path).exists
Exists(files, path) == path \in DOMAIN files

WithFile(files, path, kind) ==
  [q \in DOMAIN files \cup {path} |-> IF q = path THEN kind ELSE files[q]]

\* ensureWorkingDirectories(mujoco, segments)
RECURSIVE ensureWorkingDirectories(_, _, _)
ensureWorkingDirectories(files, working, segments) ==
  IF segments = <<>> THEN files
  ELSE LET next == IF working = <<>> THEN Head(segments)
                   ELSE working \o <<"/">> \o Head(segments)
       IN  ensureWorkingDirectories(
             IF Exists(files, next) THEN files ELSE WithFile(files, next, "dir"),
             next, Tail(segments))

\* const segments = assetPath.split('/'); ensureWorkingDirectories(mujoco, segments.slice(0, -1))
WithDirectoriesOf(files, assetPath) ==
  LET segments == Split(assetPath)
  IN  ensureWorkingDirectories(files, <<>>, SubSeq(segments, 1, Len(segments) - 1))

\* The first index >= i whose response is ok, or 0: the loop skips the others.
NextOk(resp, i) ==
  LET later == {j \in i..Len(resp) : resp[j] = "ok"}
  IN  IF later = {} THEN 0 ELSE CHOOSE j \in later : \A k \in later : j <= k

NewBatch(scenePath) ==
  [scene |-> scenePath,
   key |-> CacheKey(variant, scenePath),
   dir |-> XmlDirectory(scenePath),
   stage |-> "analyze",
   analysis |-> "pending",
   analysisResult |-> <<>>,
   index |-> "none",
   manifest |-> <<>>,
   assets |-> <<>>,
   resp |-> <<>>,
   wi |-> 0,
   written |-> {},
   writeErrors |-> {},
   error |-> NoError]

\* The batches whose creating call has already rejected.
FailedBatches ==
  {calls[c].batch : c \in {d \in 1..Len(calls) :
                             calls[d].role = "initiator" /\ calls[d].state = "rejected"}}

\* role, pendingAtStart and failedAtStart only record how the call began.
NewCall(scenePath, state, b) ==
  [path |-> scenePath, state |-> state, batch |-> b, error |-> NoError,
   role |-> IF state = "awaiting" THEN "initiator"
            ELSE IF state = "sharing" THEN "sharer" ELSE "none",
   pendingAtStart |-> PendingBatches,
   failedAtStart |-> FailedBatches]

Universe == <<variant, env>>

SceneState == <<parent, natives, build>>

RenderState == <<graph, decode, target, assembly, drag>>

(***************************************************************************)
(* downloadExampleScenesFolder: the call                                   *)
(***************************************************************************)
\* if (!scenePath) return;  ...  if (!xmlDirectory) return;
CallTrivial(scenePath) ==
  /\ Len(calls) < env.maxCalls
  /\ scenePath = <<>> \/ XmlDirectory(scenePath) = <<>>
  /\ calls' = Append(calls, NewCall(scenePath, "resolved", 0))
  /\ UNCHANGED <<Universe, RenderState, SceneState, memo, batches, fs>>

\* if (sceneDownloadPromises.has(cacheKey)) return sceneDownloadPromises.get(cacheKey);
CallShared(scenePath) ==
  /\ Len(calls) < env.maxCalls
  /\ scenePath # <<>> /\ XmlDirectory(scenePath) # <<>>
  /\ MemoHas(CacheKey(variant, scenePath))
  /\ calls' = Append(calls,
       NewCall(scenePath, "sharing", MemoGet(CacheKey(variant, scenePath))))
  /\ UNCHANGED <<Universe, RenderState, SceneState, memo, batches, fs>>

\* CallStart that stores the promise nowhere.
CallStartUnmemoized(scenePath) ==
  /\ Len(calls) < env.maxCalls
  /\ scenePath # <<>> /\ XmlDirectory(scenePath) # <<>>
  /\ ~MemoHas(CacheKey(variant, scenePath))
  /\ batches' = Append(batches, NewBatch(scenePath))
  /\ memo' = memo
  /\ calls' = Append(calls, NewCall(scenePath, "awaiting", Len(batches) + 1))
  /\ UNCHANGED <<Universe, RenderState, SceneState, fs>>

\* The async body runs up to its first await (analyzeScene is called), the promise
\* is stored in the map, and the caller awaits it.
CallStart(scenePath) ==
  /\ Len(calls) < env.maxCalls
  /\ scenePath # <<>> /\ XmlDirectory(scenePath) # <<>>
  /\ ~MemoHas(CacheKey(variant, scenePath))
  /\ batches' = Append(batches, NewBatch(scenePath))
  /\ memo' = memo \cup {<<CacheKey(variant, scenePath), Len(batches) + 1>>}
  /\ calls' = Append(calls, NewCall(scenePath, "awaiting", Len(batches) + 1))
  /\ UNCHANGED <<Universe, RenderState, SceneState, fs>>

(***************************************************************************)
(* downloadExampleScenesFolder: the download promise                       *)
(***************************************************************************)
\* From the manifest to the fetch requests: filter, map, dedupe, fetch each.
WithRequests(batch, manifest) ==
  LET uniqueAssets == UniqueAssets(variant, batch.dir, manifest)
  IN  [batch EXCEPT !.manifest = manifest,
                    !.assets = uniqueAssets,
                    !.resp = [i \in 1..Len(uniqueAssets) |-> "pending"],
                    !.stage = "fetch"]

\* The cause of the error the try block throws (or passes on).
AnalysisCause(batch) ==
  IF batch.analysis = "array" THEN "empty" ELSE batch.analysis

\* The try block without its length check.
AnalysisFailedUnlessArray(analysis, result) == analysis # "array"

\* Whether the catch block runs: analyzeScene threw, or one of the two checks did.
AnalysisFailed(analysis, result) == analysis # "array" \/ result = <<>>

AfterAnalysis(batch, analysis, result) ==
  LET seen == [batch EXCEPT !.analysis = analysis, !.analysisResult = result]
  IN  IF AnalysisFailed(analysis, result)
      THEN [seen EXCEPT !.index = "pending", !.stage = "index"]
      ELSE WithRequests(seen, result)

\* analyzeScene settles: it threw, returned no array, or returned an array.
AnalyzeDone(b) ==
  /\ b \in 1..Len(batches)
  /\ batches[b].stage = "analyze"
  /\ \/ \E cause \in env.analysisFaults :
          batches' = [batches EXCEPT ![b] = AfterAnalysis(batches[b], cause, <<>>)]
     \/ \E manifest \in env.manifests :
          batches' = [batches EXCEPT ![b] = AfterAnalysis(batches[b], "array", manifest)]
  /\ UNCHANGED <<Universe, RenderState, SceneState, memo, calls, fs>>

\* The fallback fetch of <xmlDirectory>/index.json settles.
IndexDone(b) ==
  /\ b \in 1..Len(batches)
  /\ batches[b].stage = "index"
  /\ \/ \E cause \in env.indexFaults :
          batches' = [batches EXCEPT
            ![b].index = cause,
            ![b].stage = "rejected",
            ![b].error = BothFailedError(AnalysisCause(batches[b]), cause)]
     \/ \E manifest \in env.manifests :
          batches' = [batches EXCEPT
            ![b] = WithRequests([batches[b] EXCEPT !.index = "ok"], manifest)]
  /\ UNCHANGED <<Universe, RenderState, SceneState, memo, calls, fs>>

\* What Promise.all does when request i rejects.
AfterRejectedFetch(batch, i) ==
  [batch EXCEPT !.resp[i] = "rejected", !.stage = "rejected",
                !.error = FetchRejectedError(i)]

\* One fetch request settles: a response that is ok or not, or a rejection.
FetchRespond(b, i) ==
  /\ b \in 1..Len(batches)
  /\ batches[b].stage = "fetch"
  /\ i \in 1..Len(batches[b].resp)
  /\ batches[b].resp[i] = "pending"
  /\ \/ \E r \in {"ok", "notOk"} :
          batches' = [batches EXCEPT ![b].resp[i] = r]
     \/ batches' = [batches EXCEPT ![b] = AfterRejectedFetch(batches[b], i)]
  /\ UNCHANGED <<Universe, RenderState, SceneState, memo, calls, fs>>

\* The loop up to its next await: skip the responses that are not ok, make the
\* directories of the next ok one; the promise fulfils when none is left.
Advance(batch, from) ==
  LET i == NextOk(batch.resp, from)
  IN  IF i = 0 THEN [batch EXCEPT !.stage = "fulfilled", !.wi = 0]
      ELSE [batch EXCEPT !.stage = "write", !.wi = i]

FilesAfterAdvance(files, batch, from) ==
  LET i == NextOk(batch.resp, from)
  IN  IF i = 0 THEN files ELSE WithDirectoriesOf(files, batch.assets[i].normalizedPath)

\* A join that resumes at the first response.
JoinOnFirstResponse(b) ==
  /\ b \in 1..Len(batches)
  /\ batches[b].stage = "fetch"
  /\ \E i \in 1..Len(batches[b].resp) : batches[b].resp[i] \in {"ok", "notOk"}
  /\ batches' = [batches EXCEPT ![b] = Advance(batches[b], 1)]
  /\ fs' = FilesAfterAdvance(fs, batches[b], 1)
  /\ UNCHANGED <<Universe, RenderState, SceneState, memo, calls>>

\* await Promise.all(requests) resumes: every request has a response.
Join(b) ==
  /\ b \in 1..Len(batches)
  /\ batches[b].stage = "fetch"
  /\ \A i \in 1..Len(batches[b].resp) : batches[b].resp[i] \in {"ok", "notOk"}
  /\ batches' = [batches EXCEPT ![b] = Advance(batches[b], 1)]
  /\ fs' = FilesAfterAdvance(fs, batches[b], 1)
  /\ UNCHANGED <<Universe, RenderState, SceneState, memo, calls>>

\* The body of response wi was read: write it, or log the error; go on.
WriteStep(b) ==
  /\ b \in 1..Len(batches)
  /\ batches[b].stage = "write"
  /\ LET batch == batches[b]
         i == batch.wi
         asset == batch.assets[i]
         kind == IF isBinaryAsset(asset.normalizedPath) \/ isBinaryAsset(asset.originalPath)
                 THEN "binary" ELSE "text"
     IN  \/ /\ batches' = [batches EXCEPT
                  ![b] = Advance([batch EXCEPT !.written = @ \cup {i}], i + 1)]
            /\ fs' = FilesAfterAdvance(WithFile(fs, asset.normalizedPath, kind), batch, i + 1)
         \/ /\ batches' = [batches EXCEPT
                  ![b] = Advance([batch EXCEPT !.writeErrors = @ \cup {i}], i + 1)]
            /\ fs' = FilesAfterAdvance(fs, batch, i + 1)
  /\ UNCHANGED <<Universe, RenderState, SceneState, memo, calls>>

(***************************************************************************)
(* downloadExampleScenesFolder: the callers resume                         *)
(***************************************************************************)
\* The catch block without the delete.
MemoKeptAfterFailure(key) == memo

\* catch (error) { sceneDownloadPromises.delete(key); throw error; }
MemoAfterFailure(key) == {e \in memo : e[1] # key}

\* An initiator that drops the map entry however the promise settled.
SettleInitiatorEvicting(c) ==
  /\ c \in 1..Len(calls)
  /\ calls[c].state = "awaiting"
  /\ Settled(calls[c].batch)
  /\ LET batch == batches[calls[c].batch] IN
       /\ IF batch.stage = "fulfilled"
          THEN calls' = [calls EXCEPT ![c].state = "resolved"]
          ELSE calls' = [calls EXCEPT ![c].state = "rejected", ![c].error = batch.error]
       /\ memo' = MemoAfterFailure(batch.key)
  /\ UNCHANGED <<Universe, RenderState, SceneState, batches, fs>>

\* await downloadPromise in the call that created the promise.
SettleInitiator(c) ==
  /\ c \in 1..Len(calls)
  /\ calls[c].state = "awaiting"
  /\ Settled(calls[c].batch)
  /\ LET batch == batches[calls[c].batch] IN
       IF batch.stage = "fulfilled"
       THEN /\ calls' = [calls EXCEPT ![c].state = "resolved"]
            /\ UNCHANGED memo
       ELSE /\ calls' = [calls EXCEPT ![c].state = "rejected", ![c].error = batch.error]
            /\ memo' = MemoAfterFailure(batch.key)
  /\ UNCHANGED <<Universe, RenderState, SceneState, batches, fs>>

\* A call that returned the stored promise settles as that promise did; its
\* reaction is queued behind the initiator's.
SettleSharer(c) ==
  /\ c \in 1..Len(calls)
  /\ calls[c].state = "sharing"
  /\ Settled(calls[c].batch)
  /\ \A d \in 1..Len(calls) :
       calls[d].batch = calls[c].batch => calls[d].state # "awaiting"
  /\ LET batch == batches[calls[c].batch] IN
       IF batch.stage = "fulfilled"
       THEN calls' = [calls EXCEPT ![c].state = "resolved"]
       ELSE calls' = [calls EXCEPT ![c].state = "rejected", ![c].error = batch.error]
  /\ UNCHANGED <<Universe, RenderState, SceneState, memo, batches, fs>>

(***************************************************************************)
(* loadSceneFromURL: release, existence check, model and data              *)
(***************************************************************************)
NULL == 0

NoBuildError == [kind |-> "none", path |-> <<>>]

\* const modelPath = `/working/${normalizedFilename}`
ModelFile(filename) ==
  IF variant = "core"
  THEN normalizePathSegments(StripPublic(StripDotSlash(Trim(filename))))
  ELSE filename

ModelPath(filename) == <<"/", "working", "/">> \o ModelFile(filename)

\* mujoco.FS.analyzePath(modelPath).exists; /working itself is a directory
SceneFileExists(files, filename) ==
  ModelFile(filename) = <<>> \/ Exists(files, ModelFile(filename))

Deleted(objs, h) == [objs EXCEPT ![h].deletes = @ + 1]

\* A cleanup that deletes the simulation state and only drops the model.
ReleasedDataOnly(objs, held) ==
  IF held.mjData # NULL THEN Deleted(objs, held.mjData) ELSE objs

\* The cleanup at the top of the function, given which delete() calls throw.
\* core: each object on its own, each delete() in a try; wasm: only mjData,
\* unguarded, and mjModel is dropped without delete().
ReleasedNatives(objs, held) ==
  IF variant = "core"
  THEN LET afterData == IF held.mjData # NULL THEN Deleted(objs, held.mjData) ELSE objs
       IN  IF held.mjModel # NULL THEN Deleted(afterData, held.mjModel) ELSE afterData
  ELSE IF held.mjData # NULL THEN Deleted(objs, held.mjData) ELSE objs

\* Whether a throwing delete() ends the call.
ReleaseAborts(held, dataThrows) ==
  IF variant = "core" THEN FALSE ELSE held.mjData # NULL /\ dataThrows

NewBuild(filename) ==
  [pc |-> "release",
   filename |-> filename,
   prior |-> [mjModel |-> parent.mjModel, mjData |-> parent.mjData],
   rootsBefore |-> Len(parent.scene),
   deleteThrew |-> FALSE,
   exists |-> "unknown",
   loads |-> 0,
   datas |-> 0,
   newModel |-> NULL,
   newData |-> NULL,
   error |-> NoBuildError,
   n |-> build.n + 1]

\* loadSceneFromURL(mujoco, filename, parent) is called.
BuildBegin(filename) ==
  /\ build.pc \in {"idle", "done", "failed"}
  /\ build.n < env.maxBuilds
  /\ build' = NewBuild(filename)
  /\ UNCHANGED <<Universe, RenderState, memo, batches, calls, fs, parent, natives>>

\* Clean up existing resources.
BuildRelease ==
  /\ build.pc = "release"
  /\ \E dataThrows \in BOOLEAN, modelThrows \in BOOLEAN :
       LET held == [mjModel |-> parent.mjModel, mjData |-> parent.mjData]
           threw == \/ held.mjData # NULL /\ dataThrows
                    \/ variant = "core" /\ held.mjModel # NULL /\ modelThrows
       IN  /\ natives' = ReleasedNatives(natives, held)
           /\ IF ReleaseAborts(held, dataThrows)
              THEN /\ parent' = parent
                   /\ build' = [build EXCEPT !.pc = "failed", !.deleteThrew = TRUE,
                                             !.error = [kind |-> "deleteThrew", path |-> <<>>]]
              ELSE /\ parent' = [parent EXCEPT
                          !.mjData = IF variant = "core" \/ held.mjData # NULL
                                     THEN NULL ELSE @,
                          !.mjModel = IF variant = "core" \/ held.mjData # NULL
                                      THEN NULL ELSE @]
                   /\ build' = [build EXCEPT !.deleteThrew = threw,
                                  !.pc = IF variant = "core" THEN "check" ELSE "load"]
  /\ UNCHANGED <<Universe, RenderState, memo, batches, calls, fs>>

\* The function without the existence check.
BuildCheckSkipped ==
  /\ build.pc = "check"
  /\ build' = [build EXCEPT !.pc = "load"]
  /\ UNCHANGED <<Universe, RenderState, memo, batches, calls, fs, parent, natives>>

\* The try block around FS.analyzePath(modelPath).exists (core only).
BuildCheck ==
  /\ build.pc = "check"
  /\ \E analyzeThrows \in BOOLEAN :
       IF analyzeThrows \/ ~SceneFileExists(fs, build.filename)
       THEN build' = [build EXCEPT
              !.pc = "failed",
              !.exists = IF analyzeThrows THEN "threw" ELSE "no",
              !.error = [kind |-> "notAccessible", path |-> ModelPath(build.filename)]]
       ELSE build' = [build EXCEPT !.pc = "load", !.exists = "yes"]
  /\ UNCHANGED <<Universe, RenderState, memo, batches, calls, fs, parent, natives>>

\* mujoco.MjModel.loadFromXML(modelPath): a model, null, or an exception.
BuildLoadModel ==
  /\ build.pc = "load"
  /\ \E outcome \in {"ok", "null", "throws"} :
       LET h == Len(natives) + 1 IN
       IF outcome = "ok"
       THEN /\ natives' = Append(natives, [kind |-> "model", deletes |-> 0])
            /\ build' = [build EXCEPT !.loads = @ + 1, !.newModel = h, !.pc = "data"]
            /\ parent' = IF variant = "core" THEN parent ELSE [parent EXCEPT !.mjModel = h]
       ELSE IF variant = "wasm" /\ outcome = "null"
       THEN \* parent.mjModel = null; new mujoco.MjData(null) comes next
            /\ natives' = natives
            /\ build' = [build EXCEPT !.loads = @ + 1, !.pc = "data"]
            /\ parent' = [parent EXCEPT !.mjModel = NULL]
       ELSE /\ natives' = natives
            /\ parent' = parent
            /\ build' = [build EXCEPT
                 !.loads = @ + 1, !.pc = "failed",
                 !.error = IF variant = "wasm" THEN [kind |-> "loadThrew", path |-> <<>>]
                           ELSE [kind |-> IF outcome = "null" THEN "loadNull" ELSE "loadThrew",
                                 path |-> ModelPath(build.filename)]]
  /\ UNCHANGED <<Universe, RenderState, memo, batches, calls, fs>>

\* A failed MjData construction that leaves the loaded model allocated.
ModelKeptAfterDataFailure(objs, model) == objs

\* try { newModel.delete(); } catch (e) { /* ignore */ } before the throw (core);
\* the wasm variant has no such cleanup.
ModelReleasedAfterDataFailure(objs, model) ==
  IF variant = "core" THEN Deleted(objs, model) ELSE objs

\* new mujoco.MjData(newModel): a state or an exception; the core variant
\* also guards against a falsy result.
BuildMakeData ==
  /\ build.pc = "data"
  /\ \E outcome \in (IF variant = "core" THEN {"ok", "null", "throws"} ELSE {"ok", "throws"}) :
       LET h == Len(natives) + 1 IN
       IF outcome = "ok"
       THEN /\ natives' = Append(natives, [kind |-> "data", deletes |-> 0])
            /\ build' = [build EXCEPT !.datas = @ + 1, !.newData = h, !.pc = "attach"]
            /\ parent' = IF variant = "core" THEN parent ELSE [parent EXCEPT !.mjData = h]
       ELSE IF variant = "wasm"
       THEN \* no guard: the exception leaves parent.mjModel as it was set
            /\ natives' = ModelReleasedAfterDataFailure(natives, build.newModel)
            /\ parent' = parent
            /\ build' = [build EXCEPT !.datas = @ + 1, !.pc = "failed",
                           !.error = [kind |-> "dataThrew", path |-> <<>>]]
       ELSE /\ natives' = ModelReleasedAfterDataFailure(natives, build.newModel)
            /\ parent' = parent
            /\ build' = [build EXCEPT
                 !.datas = @ + 1, !.pc = "failed",
                 !.error = IF outcome = "null"
                           THEN [kind |-> "dataNull", path |-> ModelPath(build.filename)]
                           ELSE [kind |-> "dataThrew", path |-> <<>>]]
  /\ UNCHANGED <<Universe, RenderState, memo, batches, calls, fs>>

\* parent.mjModel = newModel; parent.mjData = newData; the root group is made
\* and added to parent.scene; the scene graph is built under it.
BuildAttach ==
  /\ build.pc = "attach"
  /\ IF variant = "wasm" /\ build.newModel = NULL
     THEN \* mjModel.names of null
          /\ parent' = parent
          /\ build' = [build EXCEPT !.pc = "failed",
                         !.error = [kind |-> "nullModel", path |-> <<>>]]
     ELSE /\ parent' = [parent EXCEPT !.mjModel = build.newModel,
                                      !.mjData = build.newData,
                                      !.scene = Append(@, build.n)]
          /\ build' = [build EXCEPT !.pc = "done"]
  /\ UNCHANGED <<Universe, RenderState, memo, batches, calls, fs, natives>>

(***************************************************************************)
(* loadSceneFromURL: the scene graph                                       *)
(*                                                                         *)
(* The model the loader returned is a record of its buffers:               *)
(*   nbody; geoms (geom_group, geom_bodyid, geom_type, geom_dataid,        *)
(*   geom_matid, geom_rgba of each geometry); mat_rgba, mat_texid;         *)
(*   textures (whether the texture of a slot can be decoded);              *)
(*   mesh_vert, mesh_normal (one vertex and one normal per mesh); lights;  *)
(*   light_pos (buffer present); names, name_bodyadr.                      *)
(* Buffers are sequences, so element i of the source is element i + 1.     *)
(* A color component is in units of 1e-5.  A THREE object is known by its  *)
(* identity <<build number, serial number>>.                               *)
(***************************************************************************)
NoObject == <<0, 0>>

NewId(gr) == <<gr.n, gr.serial>>

Allocated(gr) == [gr EXCEPT !.serial = @ + 1]

Abs(x) == IF x < 0 THEN -x ELSE x

\* Math.abs((a ?? 0) - (b ?? 0)) <= epsilon, epsilon = 1e-5
floatsAlmostEqual(a, b) == Abs(a - b) <= 1

colorsAlmostEqual(a, b) == \A i \in 1..4 : floatsAlmostEqual(a[i], b[i])

\* temp = v[1]; v[1] = v[2]; v[2] = -temp, on the three components of a vertex
SwizzledVertex(v) == <<v[1], v[3], -v[2]>>

\* A name that is undefined (an element past the end of an array).
UndefinedName == <<-1>>

\* textDecoder.decode on bytes below 128: the character of each byte.
DecodedText(bytes) == [i \in 1..Len(bytes) |-> bytes[i]]

\* fullString.split('\0'): the segments between the zero characters
RECURSIVE SplitNamesFrom(_, _, _)
SplitNamesFrom(s, cur, acc) ==
  IF s = <<>> THEN Append(acc, cur)
  ELSE IF Head(s) = 0 THEN SplitNamesFrom(Tail(s), <<>>, Append(acc, cur))
  ELSE SplitNamesFrom(Tail(s), Append(cur, Head(s)), acc)

\* let names = fullString.split(textDecoder.decode(new ArrayBuffer(1)))
SplitNames(model) == SplitNamesFrom(DecodedText(model.names), <<>>, <<>>)

\* while (end_idx < names_array.length && names_array[end_idx] !== 0) end_idx++
RECURSIVE NameEnd(_, _)
NameEnd(names_array, end_idx) ==
  IF end_idx < Len(names_array) /\ names_array[end_idx + 1] # 0
  THEN NameEnd(names_array, end_idx + 1)
  ELSE end_idx

\* The name of a body made in the geometry pass: the bytes from its entry of
\* name_bodyadr up to the next zero byte, decoded.
SlicedName(model, b) ==
  LET start_idx == model.name_bodyadr[b + 1]
      end_idx == NameEnd(model.names, start_idx)
  IN  DecodedText(SubSeq(model.names, start_idx + 1, end_idx))

\* A synthesized body named by the entry of its own id.
ListedNameOfId(model, b) ==
  LET names == SplitNames(model)
  IN  IF b + 1 <= Len(names) THEN names[b + 1] ELSE UndefinedName

\* The name of a synthesized body: names[b + 1]
ListedName(model, b) ==
  LET names == SplitNames(model)
  IN  IF b + 2 <= Len(names) THEN names[b + 2] ELSE UndefinedName

\* Caches that outlive the call that filled them.
CarriedCaches(prev) ==
  IF prev.pc = "idle"
  THEN [meshes |-> <<>>, textureCache |-> <<>>, materialCache |-> <<>>]
  ELSE [meshes |-> prev.meshes, textureCache |-> prev.textureCache,
        materialCache |-> prev.materialCache]

\* let meshes = {}; const textureCache = new Map(); const materialCache = new Map()
FreshCaches(prev) ==
  [meshes |-> <<>>, textureCache |-> <<>>, materialCache |-> <<>>]

\* The locals after the root group is made (and, wasm, the global fill light).
NewGraph(prev, model) ==
  LET n == prev.n + 1
      caches == FreshCaches(prev)
      fill == [id |-> <<n, 2>>, kind |-> "hemisphere", record |-> -1]
  IN  [pc |-> "geoms", n |-> n, model |-> model,
       root |-> <<n, 1>>,
       serial |-> IF variant = "wasm" THEN 3 ELSE 2,
       g |-> 0, l |-> 0, b |-> 0,
       bodies |-> <<>>,
       nameOf |-> <<>>,
       meshes |-> caches.meshes,
       textureCache |-> caches.textureCache,
       materialCache |-> caches.materialCache,
       mesh_vert |-> model.mesh_vert,
       mesh_normal |-> model.mesh_normal,
       rendered |-> <<>>,
       lights |-> IF variant = "wasm" THEN <<fill>> ELSE <<>>,
       dynamicLightCount |-> 0,
       parentOf |-> IF variant = "wasm" THEN (<<n, 2>> :> <<n, 1>>) ELSE <<>>,
       synthesized |-> {},
       earlierMeshes |-> IF prev.pc = "idle" THEN {}
                         ELSE prev.earlierMeshes \cup DOMAIN prev.meshes]

\* if (!(b in bodies)) { bodies[b] = new THREE.Group(); ... }
WithBodyNode(gr, b) ==
  IF b \in DOMAIN gr.bodies THEN gr
  ELSE Allocated([gr EXCEPT !.bodies = @ @@ (b :> NewId(gr)),
                            !.nameOf = @ @@ (b :> SlicedName(gr.model, b))])

\* A mesh case that builds the geometry for every geometry that references it.
WithMeshGeometryRebuilt(gr, meshID) ==
  [gr |-> Allocated([gr EXCEPT
            !.mesh_vert[meshID + 1] = SwizzledVertex(@),
            !.mesh_normal[meshID + 1] = SwizzledVertex(@),
            !.meshes = (meshID :> NewId(gr)) @@ @]),
   geometry |-> NewId(gr)]

\* The mesh case of the geometry switch: build once per mesh id, then reuse.
WithMeshGeometry(gr, meshID) ==
  IF meshID \notin DOMAIN gr.meshes
  THEN [gr |-> Allocated([gr EXCEPT
                 !.mesh_vert[meshID + 1] = SwizzledVertex(@),
                 !.mesh_normal[meshID + 1] = SwizzledVertex(@),
                 !.meshes = @ @@ (meshID :> NewId(gr))]),
        geometry |-> NewId(gr)]
  ELSE [gr |-> gr, geometry |-> gr.meshes[meshID]]

\* A switch whose default makes a geometry for every type without a case.
WithGeometryOfAnyType(gr, geom) ==
  LET start == IF variant = "wasm" THEN Allocated(gr) ELSE gr
      default == IF variant = "wasm" THEN NewId(gr) ELSE NoObject
  IN  IF geom.type = "mesh" THEN WithMeshGeometry(start, geom.dataid)
      ELSE IF geom.type = "plane" /\ variant = "wasm"
      THEN [gr |-> start, geometry |-> default]
      ELSE [gr |-> Allocated(start), geometry |-> NewId(start)]

\* The geometry of one geom.  core: undefined unless the switch has a case that
\* makes one.  wasm: a default sphere that the cases replace.  A height field
\* has an empty case, a type that the switch does not list ("unrecognized")
\* has none.
WithGeometry(gr, geom) ==
  LET start == IF variant = "wasm" THEN Allocated(gr) ELSE gr
      default == IF variant = "wasm" THEN NewId(gr) ELSE NoObject
  IN  IF geom.type = "mesh" THEN WithMeshGeometry(start, geom.dataid)
      ELSE IF geom.type \in {"hfield", "unrecognized"}
      THEN [gr |-> start, geometry |-> default]
      ELSE IF geom.type = "plane" /\ variant = "wasm"
      THEN [gr |-> start, geometry |-> default]
      ELSE [gr |-> Allocated(start), geometry |-> NewId(start)]

\* parentGroup.add(object): the object leaves its old parent for the new one.
Added(gr, child, parentGroup) ==
  [gr EXCEPT !.parentOf = (child :> parentGroup) @@ @]

NoMaterial ==
  [id |-> NoObject, color |-> <<>>, map |-> NoObject, matId |-> -1, base |-> NoObject]

\* getBaseTexture: the cached texture of a slot, or a new one that is cached
\* only when createBaseTexture returned one.
WithBaseTexture(gr, texId) ==
  IF texId < 0 THEN [gr |-> gr, texture |-> NoObject]
  ELSE IF texId \in DOMAIN gr.textureCache
  THEN [gr |-> gr, texture |-> gr.textureCache[texId]]
  ELSE IF gr.model.textures[texId + 1] = "valid"
  THEN [gr |-> Allocated([gr EXCEPT !.textureCache = @ @@ (texId :> NewId(gr))]),
        texture |-> NewId(gr)]
  ELSE [gr |-> gr, texture |-> NoObject]

\* buildMaterialFromMatId: the material color, and a clone of the base texture
\* as its map.
WithBuiltMaterial(gr, matId) ==
  LET texId == gr.model.mat_texid[matId + 1]
      t == IF texId >= 0 THEN WithBaseTexture(gr, texId)
           ELSE [gr |-> gr, texture |-> NoObject]
      cloned == t.texture # NoObject
      g1 == IF cloned THEN Allocated(t.gr) ELSE t.gr
      mat == [id |-> NewId(g1),
              color |-> gr.model.mat_rgba[matId + 1],
              map |-> IF cloned THEN NewId(t.gr) ELSE NoObject,
              matId |-> matId,
              base |-> NoObject]
  IN  [gr |-> Allocated(g1), material |-> mat]

getMaterialForMatId(gr, matId) ==
  IF matId \in DOMAIN gr.materialCache
  THEN [gr |-> gr, material |-> gr.materialCache[matId]]
  ELSE LET built == WithBuiltMaterial(gr, matId)
       IN  [gr |-> [built.gr EXCEPT !.materialCache = @ @@ (matId :> built.material)],
            material |-> built.material]

\* An override that sets the geometry's color on the cached instance itself.
OverriddenInPlace(gr, material, geomColor) ==
  IF colorsAlmostEqual(material.color, geomColor)
  THEN [gr |-> gr, material |-> material]
  ELSE [gr |-> [gr EXCEPT !.materialCache[material.matId].color = geomColor],
        material |-> [material EXCEPT !.color = geomColor]]

\* The material itself when its color is the geometry's, a clone with the
\* geometry's color and the same map otherwise.
applyGeomColorOverride(gr, material, geomColor) ==
  IF colorsAlmostEqual(material.color, geomColor)
  THEN [gr |-> gr, material |-> material]
  ELSE [gr |-> Allocated(gr),
        material |-> [material EXCEPT !.id = NewId(gr), !.color = geomColor,
                                      !.base = material.id]]

buildColorOnlyMaterial(gr, colorArray) ==
  [gr |-> Allocated(gr),
   material |-> [id |-> NewId(gr), color |-> colorArray, map |-> NoObject,
                 matId |-> -1, base |-> NoObject]]

\* core: a texture and a material of its own for every geometry.
CoreMaterial(gr, geom) ==
  LET matId == geom.matid
      texId == IF matId # -1 THEN gr.model.mat_texid[matId + 1] ELSE -1
      textured == texId # -1 /\ gr.model.textures[texId + 1] = "valid"
      g1 == IF textured THEN Allocated(gr) ELSE gr
  IN  [gr |-> Allocated(g1),
       material |-> [id |-> NewId(g1),
                     color |-> IF matId # -1 THEN gr.model.mat_rgba[matId + 1]
                               ELSE geom.rgba,
                     map |-> IF textured THEN NewId(gr) ELSE NoObject,
                     matId |-> matId,
                     base |-> NoObject]]

WithMaterial(gr, geom) ==
  IF variant = "core" THEN CoreMaterial(gr, geom)
  ELSE IF geom.matid >= 0
  THEN LET cached == getMaterialForMatId(gr, geom.matid)
       IN  applyGeomColorOverride(cached.gr, cached.material, geom.rgba)
  ELSE buildColorOnlyMaterial(gr, geom.rgba)

\* A loop that renders the geometries of every group.
InAnyGroup(geom) == TRUE

\* if (!(mjModel.geom_group[g] < 3)) { continue; }
InRenderedGroup(geom) == geom.group < 3

\* One pass of the loop over the geometries.
WithGeom(gr, g) ==
  LET geom == gr.model.geoms[g + 1]
      b == geom.bodyid
      geo == WithGeometry(WithBodyNode(gr, b), geom)
      mat == WithMaterial(geo.gr, geom)
      plane == variant = "wasm" /\ geom.type = "plane"
      reflector == plane /\ mat.material.map = NoObject
      g1 == IF plane THEN Allocated(mat.gr) ELSE mat.gr
      mesh == [id |-> NewId(g1), g |-> g, body |-> b,
               kind |-> IF reflector THEN "reflector" ELSE "mesh",
               geometry |-> IF plane THEN NewId(mat.gr) ELSE geo.geometry,
               material |-> IF reflector THEN NoMaterial ELSE mat.material]
  IN  IF ~InRenderedGroup(geom) THEN [gr EXCEPT !.g = @ + 1]
      ELSE IF geo.geometry = NoObject THEN [mat.gr EXCEPT !.g = @ + 1]
      ELSE [Added(Allocated(g1), mesh.id, g1.bodies[b]) EXCEPT
              !.g = @ + 1, !.rendered = Append(@, mesh)]

\* directional if flagged; else a spot light if the cutoff is positive; else a
\* point light.
LightKind(light) ==
  IF light.directional THEN "directional"
  ELSE IF light.cutoff > 0 THEN "spot" ELSE "point"

\* (bodyId >= 0 && bodies[bodyId]) ? bodies[bodyId] : mujocoRoot
LightParent(gr, bodyId) ==
  IF bodyId >= 0 /\ bodyId \in DOMAIN gr.bodies THEN gr.bodies[bodyId] ELSE gr.root

\* One pass of the loop over the light records: the light, its target when it
\* is a spot or directional light, and an ambient light for its ambient color.
WithLight(gr, l) ==
  LET light == gr.model.lights[l + 1]
      kind == LightKind(light)
      parentGroup == LightParent(gr, light.bodyid)
      lit == Added(Allocated(gr), NewId(gr), parentGroup)
      aimed == IF kind \in {"spot", "directional"}
               THEN Added(Allocated(lit), NewId(lit),
                          IF light.dir THEN gr.root ELSE parentGroup)
               ELSE lit
      listed == [aimed EXCEPT
                   !.lights = Append(@, [id |-> NewId(gr), kind |-> kind, record |-> l]),
                   !.dynamicLightCount = @ + 1]
      ambient == [Added(Allocated(listed), NewId(listed), gr.root) EXCEPT
                   !.lights = Append(@, [id |-> NewId(listed), kind |-> "ambient",
                                         record |-> l]),
                   !.dynamicLightCount = @ + 1]
  IN  [(IF light.ambient THEN ambient ELSE listed) EXCEPT !.l = l + 1]

\* if (mjModel.nlight > 0 && mjModel.light_pos)
LightTableReadable(model) == Len(model.lights) > 0 /\ model.light_pos

\* A fallback light that is added whatever the light table yielded.
WithFallbackAlways(gr) ==
  [Added(Allocated(gr), NewId(gr), gr.root) EXCEPT
     !.lights = Append(@, [id |-> NewId(gr), kind |-> "directional", record |-> -1])]

\* default light fallback
WithFallback(gr) ==
  IF gr.dynamicLightCount = 0
  THEN [Added(Allocated(gr), NewId(gr), gr.root) EXCEPT
          !.lights = Append(@, [id |-> NewId(gr), kind |-> "directional", record |-> -1])]
  ELSE gr

RECURSIVE WithLightsFrom(_, _)
WithLightsFrom(gr, l) ==
  IF l < Len(gr.model.lights) THEN WithLightsFrom(WithLight(gr, l), l + 1) ELSE gr

\* createLights({ mujoco, mjModel, mujocoRoot, bodies }), with the body nodes
\* that exist when it is called.
createLights(gr) ==
  WithFallback(IF LightTableReadable(gr.model) THEN WithLightsFrom(gr, 0) ELSE gr)

\* One pass of the loop over the body ids.
WithBody(gr, b) ==
  IF b = 0 \/ 0 \notin DOMAIN gr.bodies
  THEN \* mujocoRoot.add(bodies[b]); add(undefined) adds nothing
       IF b \in DOMAIN gr.bodies
       THEN [Added(gr, gr.bodies[b], gr.root) EXCEPT !.b = b + 1]
       ELSE [gr EXCEPT !.b = b + 1]
  ELSE IF b \in DOMAIN gr.bodies
  THEN [Added(gr, gr.bodies[b], gr.bodies[0]) EXCEPT !.b = b + 1]
  ELSE [Added(Allocated(gr), NewId(gr), gr.bodies[0]) EXCEPT
          !.bodies = @ @@ (b :> NewId(gr)),
          !.nameOf = @ @@ (b :> ListedName(gr.model, b)),
          !.synthesized = @ \cup {b},
          !.b = b + 1]

White == <<100000, 100000, 100000, 100000>>
Red == <<100000, 0, 0, 100000>>

SeqsUpTo(S, n) == UNION {[1..k -> S] : k \in 0..n}

\* What a geometry may be, apart from the body that owns it.
GeomKinds ==
  {[group |-> 0, type |-> "box", dataid |-> -1, matid |-> -1, rgba |-> White],
   [group |-> 3, type |-> "box", dataid |-> -1, matid |-> -1, rgba |-> White],
   [group |-> 0, type |-> "mesh", dataid |-> 0, matid |-> 0, rgba |-> White],
   [group |-> 0, type |-> "mesh", dataid |-> 0, matid |-> 0, rgba |-> Red],
   [group |-> 0, type |-> "hfield", dataid |-> 0, matid |-> -1, rgba |-> White],
   [group |-> 0, type |-> "plane", dataid |-> -1, matid |-> 0, rgba |-> White]}

\* Geometries of the first and of the last body of a model with nbody bodies.
GeomsOn(kinds, nbody) ==
  {[bodyid |-> b] @@ kind : kind \in kinds, b \in {0, nbody - 1}}

\* What a light may be, apart from the body that owns it.
LightKinds ==
  {[directional |-> d.directional, cutoff |-> d.cutoff, dir |-> d.dir, ambient |-> a] :
     d \in {[directional |-> TRUE, cutoff |-> 0, dir |-> TRUE],
            [directional |-> FALSE, cutoff |-> 45, dir |-> FALSE],
            [directional |-> FALSE, cutoff |-> 0, dir |-> FALSE]},
     a \in BOOLEAN}

\* Lights of no body, of the first and of the last body.
LightsOn(kinds, nbody) ==
  {[bodyid |-> b] @@ kind : kind \in kinds, b \in {-1, 0, nbody - 1}}

\* The names of a list, each followed by its zero byte.
RECURSIVE Terminated(_)
Terminated(list) ==
  IF list = <<>> THEN <<>> ELSE list[1] \o <<0>> \o Terminated(Tail(list))

\* mjModel.names as the loader packs it: the name of the model, the names of
\* the bodies in the order of their ids, then the names of the other objects.
NameBlob(modelName, bodyNames, otherNames) ==
  Terminated(<<modelName>> \o bodyNames \o otherNames)

\* mjModel.name_bodyadr: where the name of each body starts in mjModel.names.
NameOffsets(modelName, bodyNames) ==
  [b \in 1..Len(bodyNames) |->
     Len(Terminated(<<modelName>> \o SubSeq(bodyNames, 1, b - 1)))]

ModelName == <<9>>

\* Body 0 is the world body; the other bodies are named after their id.
NamedBodies(nbody) == [b \in 1..nbody |-> <<b>>]

\* The name blob and the name offsets of a model of nbody named bodies.
NamedBlobs ==
  [nbody \in 1..MaxBodies |-> NameBlob(ModelName, NamedBodies(nbody), <<>>)]

NamedOffsets ==
  [nbody \in 1..MaxBodies |-> NameOffsets(ModelName, NamedBodies(nbody))]

PhysicsModel(nbody, geoms, texid, lights, lightPos) ==
  [nbody |-> nbody, geoms |-> geoms,
   names |-> NamedBlobs[nbody],
   name_bodyadr |-> NamedOffsets[nbody],
   mat_rgba |-> <<White>>, mat_texid |-> <<texid>>, textures |-> <<"valid">>,
   mesh_vert |-> <<<<1, 2, 3>>>>,
   mesh_normal |-> <<<<0, 0, 1>>>>,
   lights |-> lights, light_pos |-> lightPos]

PointLight ==
  [bodyid |-> -1, directional |-> FALSE, cutoff |-> 0, dir |-> FALSE, ambient |-> FALSE]

Box == [group |-> 0, type |-> "box", dataid |-> -1, matid |-> -1, rgba |-> White]

\* Every list of geometries, one point light, a material with or without texture.
GeometryModels ==
  UNION {{PhysicsModel(nbody, geoms, texid, <<PointLight>>, TRUE) :
            geoms \in SeqsUpTo(GeomsOn(GeomKinds, nbody), MaxGeoms),
            texid \in {-1, 0}} :
         nbody \in 1..MaxBodies}

\* Every list of lights, at most one box.
LightModels ==
  UNION {{PhysicsModel(nbody, geoms, -1, lights, lightPos) :
            geoms \in SeqsUpTo(GeomsOn({Box}, nbody), 1),
            lights \in SeqsUpTo(LightsOn(LightKinds, nbody), MaxLights),
            lightPos \in BOOLEAN} :
         nbody \in 1..MaxBodies}

\* Models that use the same mesh, material and texture ids.
CacheModels ==
  {PhysicsModel(1, geoms, texid, <<PointLight>>, TRUE) :
     geoms \in SeqsUpTo(GeomsOn({kind \in GeomKinds : kind.type = "mesh"}, 1), MaxGeoms),
     texid \in {-1, 0}}

\* A body with a name of two characters, or without a name.
BodyNames(b) == {<<>>, <<b, b>>}

\* Boxes in a rendered and in a hidden group, on bodies with and without a
\* name, in a model with and without a name and with and without other names.
NameModels(maxBodies) ==
  UNION {{[PhysicsModel(nbody, geoms, -1, <<PointLight>>, TRUE) EXCEPT
             !.names = NameBlob(modelName, bodyNames, otherNames),
             !.name_bodyadr = NameOffsets(modelName, bodyNames)] :
            geoms \in SeqsUpTo(GeomsOn({kind \in GeomKinds : kind.type = "box"}, nbody),
                               MaxGeoms),
            modelName \in {<<>>, ModelName},
            bodyNames \in {names \in [1..nbody ->
                                         {<<1>>} \cup UNION {BodyNames(b) : b \in 2..nbody}] :
                             /\ names[1] = <<1>>
                             /\ \A b \in 2..nbody : names[b] \in BodyNames(b)},
            otherNames \in {<<>>, <<<<8>>>>}} :
         nbody \in 1..maxBodies}

\* Shapes with and without a case in the geometry switch, in a rendered and in
\* a hidden group.
ShapeKinds ==
  {[group |-> 0, type |-> "box", dataid |-> -1, matid |-> -1, rgba |-> White],
   [group |-> 3, type |-> "box", dataid |-> -1, matid |-> -1, rgba |-> White],
   [group |-> 0, type |-> "hfield", dataid |-> 0, matid |-> -1, rgba |-> White],
   [group |-> 0, type |-> "unrecognized", dataid |-> -1, matid |-> -1, rgba |-> White]}

ShapeModels(maxBodies) ==
  UNION {{PhysicsModel(nbody, geoms, -1, <<PointLight>>, TRUE) :
            geoms \in SeqsUpTo(GeomsOn(ShapeKinds, nbody), MaxGeoms)} :
         nbody \in 1..maxBodies}

\* The models the loader may return in a run.
Models(pool) ==
  IF pool = "shapes" THEN ShapeModels(MaxBodies)
  ELSE IF pool = "geometries" THEN GeometryModels
  ELSE IF pool = "lights" THEN LightModels
  ELSE IF pool = "names" THEN NameModels(MaxBodies)
  ELSE CacheModels

\* The model the loader returned is attached; the root group is made and added
\* to parent.scene.
GraphBegin ==
  /\ graph.pc \in {"idle", "done"}
  /\ graph.n < env.maxBuilds
  /\ \E model \in Models(env.pool) : graph' = NewGraph(graph, model)
  /\ UNCHANGED <<Universe, SceneState, memo, batches, calls, fs, decode, target, assembly, drag>>

GeomStep ==
  /\ graph.pc = "geoms"
  /\ graph.g < Len(graph.model.geoms)
  /\ graph' = WithGeom(graph, graph.g)
  /\ UNCHANGED <<Universe, SceneState, memo, batches, calls, fs, decode, target, assembly, drag>>

\* Tendons: the two instanced meshes are added to the root group.
AddTendons ==
  /\ graph.pc = "geoms"
  /\ graph.g = Len(graph.model.geoms)
  /\ LET cylinders == Added(Allocated(graph), NewId(graph), graph.root)
         spheres == Added(Allocated(cylinders), NewId(cylinders), graph.root)
     IN  graph' = [spheres EXCEPT !.pc = "lights"]
  /\ UNCHANGED <<Universe, SceneState, memo, batches, calls, fs, decode, target, assembly, drag>>

LightStep ==
  /\ graph.pc = "lights"
  /\ variant = "wasm"
  /\ LightTableReadable(graph.model)
  /\ graph.l < Len(graph.model.lights)
  /\ graph' = WithLight(graph, graph.l)
  /\ UNCHANGED <<Universe, SceneState, memo, batches, calls, fs, decode, target, assembly, drag>>

LightFallback ==
  /\ graph.pc = "lights"
  /\ variant = "wasm"
  /\ ~LightTableReadable(graph.model) \/ graph.l = Len(graph.model.lights)
  /\ graph' = [WithFallback(graph) EXCEPT !.pc = "bodies"]
  /\ UNCHANGED <<Universe, SceneState, memo, batches, calls, fs, decode, target, assembly, drag>>

CreateLights ==
  /\ graph.pc = "lights"
  /\ variant = "core"
  /\ graph' = [createLights(graph) EXCEPT !.pc = "bodies"]
  /\ UNCHANGED <<Universe, SceneState, memo, batches, calls, fs, decode, target, assembly, drag>>

BodyStep ==
  /\ graph.pc = "bodies"
  /\ graph.b < graph.model.nbody
  /\ graph' = WithBody(graph, graph.b)
  /\ UNCHANGED <<Universe, SceneState, memo, batches, calls, fs, decode, target, assembly, drag>>

\* parent.bodies = bodies; ...; return [mjModel, mjData, bodies, lights]
GraphReturn ==
  /\ graph.pc = "bodies"
  /\ graph.b = graph.model.nbody
  /\ graph' = [graph EXCEPT !.pc = "done"]
  /\ UNCHANGED <<Universe, SceneState, memo, batches, calls, fs, decode, target, assembly, drag>>

(***************************************************************************)
(* createTexture, create2DTexture, expandChannelsToRGBA                    *)
(*                                                                         *)
(* The call's input is a record: hasModel (mjModel is not null), texId,    *)
(* tex_type ("2d", "cube", or "missing" when the model has no tex_type),   *)
(* and tex_width, tex_height, tex_adr, tex_nchannel (one entry per         *)
(* texture) and tex_data (bytes).  Buffers are sequences, so element i of  *)
(* the source is element i + 1.                                            *)
(***************************************************************************)
NoTexture == [data |-> <<>>, width |-> 0, height |-> 0]

\* buffer[i] where only its truthiness or a stored byte matters: undefined
\* (an index outside the buffer) is falsy, and is stored in a Uint8Array as 0.
ElementOrZero(buffer, i) ==
  IF i >= 0 /\ i < Len(buffer) THEN buffer[i + 1] ELSE 0

\* typedArray.subarray(begin, end): both ends are clamped to the array.
Subarray(buffer, begin, end) ==
  LET first == IF begin > Len(buffer) THEN Len(buffer) ELSE begin
      last == IF end > Len(buffer) THEN Len(buffer) ELSE end
  IN  IF last <= first THEN <<>> ELSE SubSeq(buffer, first + 1, last)

\* dest[d + 0..3] = px; a store outside a typed array is dropped.
Stored(dest, d, px) ==
  [k \in 1..Len(dest) |-> IF k > d /\ k <= d + 4 THEN px[k - d] ELSE dest[k]]

\* A pixel that is grey and opaque whatever the channel count.
GreyPixel(src, i, nchannel) ==
  <<ElementOrZero(src, i), ElementOrZero(src, i), ElementOrZero(src, i), 255>>

\* The four bytes written for the pixel whose source bytes start at src[i].
ExpandedPixel(src, i, nchannel) ==
  IF nchannel = 1
  THEN <<ElementOrZero(src, i), ElementOrZero(src, i), ElementOrZero(src, i), 255>>
  ELSE IF nchannel = 2
  THEN <<ElementOrZero(src, i), ElementOrZero(src, i), ElementOrZero(src, i),
         ElementOrZero(src, i + 1)>>
  ELSE <<ElementOrZero(src, i), ElementOrZero(src, i + 1), ElementOrZero(src, i + 2), 255>>

RECURSIVE ExpandFrom(_, _, _, _, _)
ExpandFrom(src, dest, nchannel, i, d) ==
  IF i >= Len(src) THEN dest
  ELSE ExpandFrom(src, Stored(dest, d, ExpandedPixel(src, i, nchannel)),
                  nchannel, i + nchannel, d + 4)

\* switch (nchannel): cases 1, 2, 3 loop over src; case 4 is dest.set(src).
expandChannelsToRGBA(src, dest, nchannel) ==
  IF nchannel \in 1..3 THEN ExpandFrom(src, dest, nchannel, 0, 0)
  ELSE IF nchannel = 4
  THEN [k \in 1..Len(dest) |-> IF k <= Len(src) THEN src[k] ELSE dest[k]]
  ELSE dest

\* The indices of src that expandChannelsToRGBA reads.
IndicesRead(src, nchannel) ==
  IF nchannel \in 1..3
  THEN {i + c : i \in {j \in 0..(Len(src) - 1) : j % nchannel = 0}, c \in 0..(nchannel - 1)}
  ELSE IF nchannel = 4 THEN 0..(Len(src) - 1)
  ELSE {}

\* The guard without the comparison of the buffer length.
HasChannelsOnly(input, nchannel, texAdr, srcByteCount) ==
  input.hasData /\ nchannel >= 1 /\ nchannel <= 4

\* mjModel.tex_data && nchannel >= 1 && nchannel <= 4
\*   && mjModel.tex_data.length >= texAdr + srcByteCount
HasValidData(input, nchannel, texAdr, srcByteCount) ==
  /\ input.hasData
  /\ nchannel >= 1 /\ nchannel <= 4
  /\ Len(input.tex_data) >= texAdr + srcByteCount

\* The texture and the indices of tex_data that were read to make it.
create2DTexture(input) ==
  LET width == ElementOrZero(input.tex_width, input.texId)
      height == ElementOrZero(input.tex_height, input.texId)
      texAdr == ElementOrZero(input.tex_adr, input.texId)
      pixelCount == width * height
      nchannel == ElementOrZero(input.tex_nchannel, input.texId)
      srcByteCount == pixelCount * nchannel
      src == Subarray(input.tex_data, texAdr, texAdr + srcByteCount)
      textureData == [k \in 1..(pixelCount * 4) |-> 0]
  IN  IF width = 0 \/ height = 0
      THEN [texture |-> NoTexture, reads |-> {}]
      ELSE IF HasValidData(input, nchannel, texAdr, srcByteCount)
      THEN [texture |-> [data |-> expandChannelsToRGBA(src, textureData, nchannel),
                         width |-> width, height |-> height],
            reads |-> {texAdr + i : i \in IndicesRead(src, nchannel)}]
      ELSE [texture |-> NoTexture, reads |-> {}]

\* null without a model or with a negative id; a 2D texture is decoded; a
\* cube texture or any other type is unsupported.
createTexture(input) ==
  IF ~input.hasModel \/ input.texId < 0
  THEN [texture |-> NoTexture, reads |-> {}]
  ELSE IF input.tex_type \in {"2d", "missing"}
  THEN create2DTexture(input)
  ELSE [texture |-> NoTexture, reads |-> {}]

\* The k-th byte of the texture data: every byte differs from its neighbours.
Byte(k) == (37 * k + 11) % 256

\* A model with one texture of any width, height, channel count and address,
\* over a data buffer of any length up to one byte more than the largest run.
TextureInputs ==
  {[hasModel |-> TRUE, texId |-> 0, tex_type |-> type,
    tex_width |-> <<width>>, tex_height |-> <<height>>,
    tex_adr |-> <<adr>>, tex_nchannel |-> <<nchannel>>,
    hasData |-> hasData,
    tex_data |-> [k \in 1..(IF hasData THEN length ELSE 0) |-> Byte(k)]] :
     type \in {"2d", "missing"}, width \in 0..MaxWidth, height \in 0..2,
     adr \in 0..1, nchannel \in 0..5, hasData \in BOOLEAN,
     length \in 0..(MaxWidth * 2 * 4 + 1)}

\* The same, asked for with no model, a negative id, an id past the table,
\* or for a cube texture.
OtherTextureInputs ==
  LET some == [hasModel |-> TRUE, texId |-> 0, tex_type |-> "2d",
               tex_width |-> <<2>>, tex_height |-> <<1>>,
               tex_adr |-> <<0>>, tex_nchannel |-> <<3>>,
               hasData |-> TRUE, tex_data |-> [k \in 1..6 |-> Byte(k)]]
  IN  {[some EXCEPT !.hasModel = FALSE], [some EXCEPT !.texId = -1],
       [some EXCEPT !.texId = 1], [some EXCEPT !.tex_type = "cube"]}

\* createTexture({ mujoco, mjModel, texId }) is called and returns.
CreateTexture ==
  /\ decode.pc = "idle"
  /\ \E input \in TextureInputs \cup OtherTextureInputs :
       decode' = [pc |-> "done", input |-> input,
                  result |-> createTexture(input).texture,
                  reads |-> createTexture(input).reads]
  /\ UNCHANGED <<Universe, SceneState, memo, batches, calls, fs, graph, target, assembly, drag>>

(***************************************************************************)
(* getPosition, getQuaternion, toMujocoPos                                 *)
(*                                                                         *)
(* env.buffer is the buffer handed to the functions; target.value is what  *)
(* the THREE.Vector3 or THREE.Quaternion holds after target.set(...).      *)
(***************************************************************************)
getPosition(buffer, index, swizzle) ==
  IF swizzle
  THEN <<buffer[(index * 3) + 1], buffer[(index * 3) + 3], -buffer[(index * 3) + 2]>>
  ELSE <<buffer[(index * 3) + 1], buffer[(index * 3) + 2], buffer[(index * 3) + 3]>>

getQuaternion(buffer, index, swizzle) ==
  IF swizzle
  THEN <<-buffer[(index * 4) + 2], -buffer[(index * 4) + 4],
         buffer[(index * 4) + 3], -buffer[(index * 4) + 1]>>
  ELSE <<buffer[(index * 4) + 1], buffer[(index * 4) + 2],
         buffer[(index * 4) + 3], buffer[(index * 4) + 4]>>

\* A conversion back that swizzles once more.
toMujocoPosSwizzled(v) == <<v[1], v[3], -v[2]>>

\* target.set(target.x, -target.z, target.y)
toMujocoPos(v) == <<v[1], -v[3], v[2]>>

GetPosition(index, swizzle) ==
  /\ (index * 3) + 3 <= Len(env.buffer)
  /\ target' = [pc |-> "position", index |-> index, swizzle |-> swizzle,
                after |-> "none",
                value |-> getPosition(env.buffer, index, swizzle)]
  /\ UNCHANGED <<Universe, SceneState, memo, batches, calls, fs, graph, decode, assembly, drag>>

GetQuaternion(index, swizzle) ==
  /\ (index * 4) + 4 <= Len(env.buffer)
  /\ target' = [pc |-> "quaternion", index |-> index, swizzle |-> swizzle,
                after |-> "none",
                value |-> getQuaternion(env.buffer, index, swizzle)]
  /\ UNCHANGED <<Universe, SceneState, memo, batches, calls, fs, graph, decode, assembly, drag>>

\* toMujocoPos(target) on a vector that holds a position.
ToMujocoPos ==
  /\ target.pc \in {"position", "mujoco"}
  /\ target' = [target EXCEPT !.pc = "mujoco", !.after = target.pc,
                               !.value = toMujocoPos(@)]
  /\ UNCHANGED <<Universe, SceneState, memo, batches, calls, fs, graph, decode, assembly, drag>>

(***************************************************************************)
(* The mesh case of the geometry switch, for a mesh that is not cached     *)
(*                                                                         *)
(* The input is a record of the mesh tables of the model (mesh_vert,       *)
(* mesh_normal, mesh_texcoord, mesh_face, mesh_facetexcoord,               *)
(* mesh_facenormal and the address and count of each mesh in them) and the *)
(* meshID.  Buffers are sequences, so element i of the source is element   *)
(* i + 1.                                                                  *)
(***************************************************************************)
\* What a Float32Array holds after undefined was stored in it.
NotANumber == -1000000

\* buffer[i] of a typed array: undefined outside it, stored as NaN.
ElementOrNaN(buffer, i) ==
  IF i >= 0 /\ i < Len(buffer) THEN buffer[i + 1] ELSE NotANumber

\* dest[i] = x; a store outside a typed array is dropped.
StoredAt(dest, i, x) ==
  IF i >= 0 /\ i < Len(dest) THEN [dest EXCEPT ![i + 1] = x] ELSE dest

Negated(x) == IF x = NotANumber THEN NotANumber ELSE -x

\* for (v = 0; v < buffer.length; v += 3)
\*   { temp = buffer[v + 1]; buffer[v + 1] = buffer[v + 2]; buffer[v + 2] = -temp }
RECURSIVE SwizzledFrom(_, _)
SwizzledFrom(buffer, v) ==
  IF v >= Len(buffer) THEN buffer
  ELSE LET temp == ElementOrNaN(buffer, v + 1)
           moved == StoredAt(buffer, v + 1, ElementOrNaN(buffer, v + 2))
       IN  SwizzledFrom(StoredAt(moved, v + 2, Negated(temp)), v + 3)

\* A subarray shares its memory with the array: what the array holds after
\* the view that starts at begin was written.
WrittenBack(buffer, begin, view) ==
  [i \in 1..Len(buffer) |->
     IF i > begin /\ i <= begin + Len(view) THEN view[i - begin] ELSE buffer[i]]

\* The run of a table that belongs to one mesh.
RunOf(buffer, adr, num, width) == Subarray(buffer, adr * width, (adr + num) * width)

\* A corner that stores the value addressed by its vertex index.
ScatteredByVertexIndex(dest, source, vi, si, width) ==
  IF width = 0 THEN dest
  ELSE LET RECURSIVE Fill(_, _)
           Fill(d, c) ==
             IF c = width THEN d
             ELSE Fill(StoredAt(d, (vi * width) + c,
                                ElementOrNaN(source, (vi * width) + c)), c + 1)
       IN  Fill(dest, 0)

\* dest[(vi * width) + c] = source[(si * width) + c], c = 0 .. width - 1
ScatteredCorner(dest, source, vi, si, width) ==
  IF width = 0 THEN dest
  ELSE LET RECURSIVE Fill(_, _)
           Fill(d, c) ==
             IF c = width THEN d
             ELSE Fill(StoredAt(d, (vi * width) + c,
                                ElementOrNaN(source, (si * width) + c)), c + 1)
       IN  Fill(dest, 0)

\* The loop over the faces: the three corners of face t, then face t + 1.
RECURSIVE ScatteredFrom(_, _, _, _, _, _)
ScatteredFrom(dest, source, face_to_vertex_buffer, face_to_source_buffer, width, t) ==
  IF ~(t * 3 < Len(face_to_vertex_buffer)) THEN dest
  ELSE LET corner(d, c) ==
             ScatteredCorner(d, source,
                             ElementOrNaN(face_to_vertex_buffer, (t * 3) + c),
                             ElementOrNaN(face_to_source_buffer, (t * 3) + c), width)
       IN  ScatteredFrom(corner(corner(corner(dest, 0), 1), 2), source,
                         face_to_vertex_buffer, face_to_source_buffer, width, t + 1)

Zeros(n) == [i \in 1..n |-> 0]

Vector(buffer, i) == <<buffer[(i * 3) + 1], buffer[(i * 3) + 2], buffer[(i * 3) + 3]>>

Minus(a, b) == <<a[1] - b[1], a[2] - b[2], a[3] - b[3]>>

Cross(a, b) ==
  <<(a[2] * b[3]) - (a[3] * b[2]), (a[3] * b[1]) - (a[1] * b[3]),
    (a[1] * b[2]) - (a[2] * b[1])>>

\* BufferGeometry.computeVertexNormals of an indexed geometry, before the
\* normals are scaled to length one: every corner of a face adds the face's
\* (pC - pB) x (pA - pB) to the normal of its vertex.
RECURSIVE ComputedNormalsFrom(_, _, _, _)
ComputedNormalsFrom(normal, position, index, t) ==
  IF ~(t * 3 < Len(index)) THEN normal
  ELSE LET vA == index[(t * 3) + 1]
           vB == index[(t * 3) + 2]
           vC == index[(t * 3) + 3]
           cb == Cross(Minus(Vector(position, vC), Vector(position, vB)),
                       Minus(Vector(position, vA), Vector(position, vB)))
           added(n, v) ==
             [i \in 1..Len(n) |->
                IF i > v * 3 /\ i <= (v * 3) + 3 THEN n[i] + cb[i - (v * 3)] ELSE n[i]]
       IN  ComputedNormalsFrom(added(added(added(normal, vA), vB), vC),
                               position, index, t + 1)

computeVertexNormals(position, index) ==
  ComputedNormalsFrom(Zeros(Len(position)), position, index, 0)

\* core: positions and normals swizzled in place, UVs and normals scattered
\* to the vertices of the faces, normals recomputed.
CoreMeshGeometry(mesh) ==
  LET m == mesh.meshID + 1
      vertex_buffer ==
        SwizzledFrom(RunOf(mesh.mesh_vert, mesh.mesh_vertadr[m], mesh.mesh_vertnum[m], 3), 0)
      normal_buffer ==
        SwizzledFrom(RunOf(mesh.mesh_normal, mesh.mesh_normaladr[m],
                           mesh.mesh_normalnum[m], 3), 0)
      uv_buffer ==
        RunOf(mesh.mesh_texcoord, mesh.mesh_texcoordadr[m], mesh.mesh_texcoordnum[m], 2)
      face_to_vertex_buffer ==
        RunOf(mesh.mesh_face, mesh.mesh_faceadr[m], mesh.mesh_facenum[m], 3)
      face_to_uv_buffer ==
        RunOf(mesh.mesh_facetexcoord, mesh.mesh_faceadr[m], mesh.mesh_facenum[m], 3)
      face_to_normal_buffer ==
        RunOf(mesh.mesh_facenormal, mesh.mesh_faceadr[m], mesh.mesh_facenum[m], 3)
      swizzled_uv_buffer ==
        ScatteredFrom(Zeros((Len(vertex_buffer) \div 3) * 2), uv_buffer,
                      face_to_vertex_buffer, face_to_uv_buffer, 2, 0)
      swizzled_normal_buffer ==
        ScatteredFrom(Zeros(Len(vertex_buffer)), normal_buffer,
                      face_to_vertex_buffer, face_to_normal_buffer, 3, 0)
  IN  [position |-> vertex_buffer,
       scattered |-> swizzled_normal_buffer,
       normal |-> computeVertexNormals(vertex_buffer, face_to_vertex_buffer),
       uv |-> swizzled_uv_buffer,
       index |-> face_to_vertex_buffer,
       mesh_vert |-> WrittenBack(mesh.mesh_vert, mesh.mesh_vertadr[m] * 3, vertex_buffer),
       mesh_normal |-> WrittenBack(mesh.mesh_normal, mesh.mesh_normaladr[m] * 3,
                                   normal_buffer)]

\* wasm: positions and normals swizzled in place, the runs of the tables
\* taken as they are, each with the address and count of the vertices.
WasmMeshGeometry(mesh) ==
  LET m == mesh.meshID + 1
      vertex_buffer ==
        SwizzledFrom(RunOf(mesh.mesh_vert, mesh.mesh_vertadr[m], mesh.mesh_vertnum[m], 3), 0)
      normal_buffer ==
        SwizzledFrom(RunOf(mesh.mesh_normal, mesh.mesh_vertadr[m], mesh.mesh_vertnum[m], 3), 0)
      uv_buffer ==
        Subarray(mesh.mesh_texcoord, mesh.mesh_texcoordadr[m] * 2,
                 (mesh.mesh_texcoordadr[m] + mesh.mesh_vertnum[m]) * 2)
      triangle_buffer ==
        RunOf(mesh.mesh_face, mesh.mesh_faceadr[m], mesh.mesh_facenum[m], 3)
  IN  [position |-> vertex_buffer,
       scattered |-> normal_buffer,
       normal |-> normal_buffer,
       uv |-> uv_buffer,
       index |-> triangle_buffer,
       mesh_vert |-> WrittenBack(mesh.mesh_vert, mesh.mesh_vertadr[m] * 3, vertex_buffer),
       mesh_normal |-> WrittenBack(mesh.mesh_normal, mesh.mesh_vertadr[m] * 3,
                                   normal_buffer)]

MaxFaces == 2

\* The faces of a mesh of four vertices, two normals and two texture
\* coordinates: a vertex may be a corner of two faces, twice a corner of one
\* face, or a corner of no face.
FaceKinds ==
  {[v |-> v, uv |-> uv, n |-> n] :
     v \in {<<0, 1, 2>>, <<1, 2, 3>>, <<0, 0, 1>>},
     uv \in {<<0, 0, 0>>, <<0, 1, 0>>, <<1, 0, 1>>},
     n \in {<<0, 0, 0>>, <<1, 0, 1>>}}

RECURSIVE Flat(_, _)
Flat(faces, field) ==
  IF faces = <<>> THEN <<>> ELSE faces[1][field] \o Flat(Tail(faces), field)

\* The tables of a model of two meshes: a mesh of one vertex and one face,
\* then the mesh of the given faces.
MeshTables(faces, meshID) ==
  [meshID |-> meshID,
   mesh_vert |-> <<7, 8, 9>> \o <<0, 0, 0, 1, 0, 0, 0, 1, 0, 0, 0, 1>>,
   mesh_vertadr |-> <<0, 1>>, mesh_vertnum |-> <<1, 4>>,
   mesh_normal |-> <<0, 0, 1>> \o <<1, 2, 3, 4, 5, 6>>,
   mesh_normaladr |-> <<0, 1>>, mesh_normalnum |-> <<1, 2>>,
   mesh_texcoord |-> <<1, 2>> \o <<11, 12, 21, 22>>,
   mesh_texcoordadr |-> <<0, 1>>, mesh_texcoordnum |-> <<1, 2>>,
   mesh_face |-> <<0, 0, 0>> \o Flat(faces, "v"),
   mesh_facetexcoord |-> <<0, 0, 0>> \o Flat(faces, "uv"),
   mesh_facenormal |-> <<0, 0, 0>> \o Flat(faces, "n"),
   mesh_faceadr |-> <<0, 1>>, mesh_facenum |-> <<1, Len(faces)>>]

MeshInputs(maxFaces) ==
  {MeshTables(faces, meshID) : faces \in SeqsUpTo(FaceKinds, maxFaces), meshID \in {0, 1}}

\* The mesh case for a mesh that is not in the cache yet.
AssembleMesh ==
  /\ assembly.pc = "idle"
  /\ \E mesh \in MeshInputs(MaxFaces) :
       assembly' = [pc |-> "done", mesh |-> mesh,
                    geometry |-> IF variant = "core" THEN CoreMeshGeometry(mesh)
                                 ELSE WasmMeshGeometry(mesh)]
  /\ UNCHANGED <<Universe, SceneState, memo, batches, calls, fs, graph, decode, target, drag>>

(***************************************************************************)
(* DragStateManager (src/unnamed/part_002)                                 *)
(*                                                                         *)
(* The world has one axis.  The ray of a pointer at x starts at x and runs *)
(* in the positive direction, so the point at a distance d on it is x + d. *)
(* An object of the scene is a record: hasBodyID, bodyID, and at, the      *)
(* place of its origin.  raycaster.intersectObjects returns its hits       *)
(* nearest first; the distance of hit i is i.  physicsObject is <<>> when   *)
(* it is null and <<obj>> when it is the object obj.                       *)
(***************************************************************************)
MaxHits == 2
MaxPointer == 1

\* The state after the constructor, with controls that are enabled.
NewDragStateManager ==
  [pc |-> "constructed",
   active |-> FALSE, mouseDown |-> FALSE, physicsObject |-> <<>>,
   grabDistance |-> 0, localHit |-> 0, worldHit |-> 0, currentWorld |-> 0, offset |-> 0,
   arrow |-> [visible |-> FALSE, position |-> 0, direction |-> 1, length |-> 1],
   controls |-> [enabled |-> TRUE]]

\* ray.origin.clone().addScaledVector(ray.direction, distance)
PointOnRay(x, distance) == x + distance

worldToLocal(obj, point) == point - obj.at

localToWorld(obj, point) == point + obj.at

\* 'bodyID' in obj && typeof obj.bodyID === 'number' && obj.bodyID > 0
Draggable(obj) == obj.hasBodyID /\ obj.bodyID > 0

\* start(x, y): the nearest hit that can be dragged becomes the dragged object.
start(d, x, intersects) ==
  LET hits == {i \in 1..Len(intersects) : Draggable(intersects[i])}
      cleared == [d EXCEPT !.physicsObject = <<>>]
  IN  IF hits = {} THEN cleared
      ELSE LET i == CHOOSE h \in hits : \A other \in hits : h <= other
               hit == PointOnRay(x, i)
           IN  [cleared EXCEPT !.physicsObject = <<intersects[i]>>,
                               !.grabDistance = i,
                               !.localHit = worldToLocal(intersects[i], hit),
                               !.worldHit = hit,
                               !.currentWorld = hit,
                               !.arrow.position = hit,
                               !.arrow.visible = TRUE,
                               !.active = TRUE,
                               !.controls.enabled = FALSE]

\* update(): the arrow from the grabbed point of the object to the pointer.
update(d) ==
  IF d.physicsObject = <<>> \/ ~d.active THEN d
  ELSE LET worldHit == localToWorld(d.physicsObject[1], d.localHit)
           offset == d.currentWorld - worldHit
           placed == [d EXCEPT !.worldHit = worldHit, !.offset = offset,
                               !.arrow.position = worldHit]
       IN  IF Abs(offset) > 0
           THEN [placed EXCEPT !.arrow.direction = IF offset > 0 THEN 1 ELSE -1,
                               !.arrow.length = Abs(offset)]
           ELSE placed

\* move(x, y)
move(d, x) ==
  IF ~d.active THEN d
  ELSE update([d EXCEPT !.currentWorld = PointOnRay(x, d.grabDistance)])

\* end()
end(d) ==
  [d EXCEPT !.physicsObject = <<>>, !.active = FALSE, !.controls.enabled = TRUE,
            !.arrow.visible = FALSE, !.mouseDown = FALSE]

\* What the ray may hit: an object without a bodyID (the arrow, a tendon
\* batch), a mesh of the world body, a mesh of body 1.
DragObjects ==
  {[hasBodyID |-> FALSE, bodyID |-> 0, at |-> 0],
   [hasBodyID |-> TRUE, bodyID |-> 0, at |-> 0],
   [hasBodyID |-> TRUE, bodyID |-> 1, at |-> 1]}

Intersects == SeqsUpTo(DragObjects, MaxHits)

\* onPointer for a pointerdown event
PointerDown(x, intersects) ==
  /\ drag.pc # "idle"
  /\ drag' = [start(drag, x, intersects) EXCEPT !.mouseDown = TRUE, !.pc = "pointerdown"]
  /\ UNCHANGED <<Universe, SceneState, memo, batches, calls, fs, graph, decode, target,
                 assembly>>

\* onPointer for a pointermove event
PointerMove(x) ==
  /\ drag.pc # "idle"
  /\ drag' = [(IF drag.mouseDown THEN move(drag, x) ELSE drag) EXCEPT !.pc = "pointermove"]
  /\ UNCHANGED <<Universe, SceneState, memo, batches, calls, fs, graph, decode, target,
                 assembly>>

\* onPointer for a pointerup event
PointerUp ==
  /\ drag.pc # "idle"
  /\ drag' = [end(drag) EXCEPT !.pc = "pointerup"]
  /\ UNCHANGED <<Universe, SceneState, memo, batches, calls, fs, graph, decode, target,
                 assembly>>

(***************************************************************************)
(* Inputs of the runs                                                      *)
(***************************************************************************)
SceneA == <<"dir", "/", "a", ".xml">>
SceneADot == <<".", "/", "dir", "/", "a", ".xml">>
SceneB == <<"dir", "/", "b", ".xml">>
SceneNoDir == <<"a", ".xml">>

\* analyzeScene throws, or resolves to something that is no array.
AnalysisFaults == {"threw", "notArray"}

\* fetch(index.json) rejects, responds not ok, or its json() is no array.
IndexFaults == {"rejected", "notOk", "notArray"}

\* Concurrent callers: several scene files, one asset, one fault of each kind.
ConcurrentEnv ==
  [scenes |-> {SceneNoDir, SceneA, SceneB},
   manifests |-> {<<>>, <<Str(<<"t", ".png">>)>>},
   analysisFaults |-> {"threw"},
   indexFaults |-> {"notOk"},
   maxCalls |-> MaxCalls]

SingleEntries ==
  {Str(<<"t", ".png">>),
   Str(<<".", "/", "t", ".png">>),
   Str(<<"a", "/", ".", ".", "/", "t", ".png">>),
   Str(<<"public", "/", "m", ".txt">>),
   Str(<<" ", ".", "/">>),
   Str(<<"http:", "/", "/", "x">>),
   Str(<<"https:", "/", "/", "x">>),
   NotAString}

\* A single download: one scene file, every manifest, every fault.
SingleEnv ==
  [scenes |-> {<<>>, SceneADot},
   manifests |-> Manifests(SingleEntries),
   analysisFaults |-> AnalysisFaults,
   indexFaults |-> IndexFaults,
   maxCalls |-> 1]

Variants == {"core", "wasm"}

InitDownloads ==
  /\ memo = {}
  /\ batches = <<>>
  /\ calls = <<>>

InitNoScene ==
  /\ fs = <<>>
  /\ parent = [mjModel |-> NULL, mjData |-> NULL, scene |-> <<>>]
  /\ natives = <<>>
  /\ build = [pc |-> "idle", n |-> 0]

InitNoRender ==
  /\ graph = [pc |-> "idle", n |-> 0]
  /\ decode = [pc |-> "idle"]
  /\ target = [pc |-> "idle"]
  /\ assembly = [pc |-> "idle"]
  /\ drag = [pc |-> "idle"]

\* Scene files the caller may name, present in the filesystem or not.
SceneFilenames ==
  {SceneA, SceneADot, SceneB,
   <<"public", "/", "dir", "/", ".", "/", "a", ".xml">>,
   <<"dir", "/", "x", "/", ".", ".", "/", "a", ".xml">>}

StagedFiles ==
  {<<>>,
   [q \in {<<"dir">>, SceneA} |-> IF q = SceneA THEN "text" ELSE "dir"]}

SceneEnv == [filenames |-> SceneFilenames, maxBuilds |-> MaxBuilds]

\* The destination may already hold a model, a simulation state, both or none.
InitScene ==
  /\ variant \in Variants
  /\ env = SceneEnv
  /\ InitDownloads
  /\ fs \in StagedFiles
  /\ \E hasModel \in BOOLEAN, hasData \in BOOLEAN :
       /\ natives = (IF hasModel THEN <<[kind |-> "model", deletes |-> 0]>> ELSE <<>>)
                     \o (IF hasData THEN <<[kind |-> "data", deletes |-> 0]>> ELSE <<>>)
       /\ parent = [mjModel |-> IF hasModel THEN 1 ELSE NULL,
                    mjData |-> IF hasData THEN Len(natives) ELSE NULL,
                    scene |-> <<>>]
  /\ build = [pc |-> "idle", n |-> 0]
  /\ InitNoRender

\* One build of any model, or one build after the other of a few models.
GraphEnv == [pool |-> "geometries", maxBuilds |-> 1]

LightsEnv == [pool |-> "lights", maxBuilds |-> 1]

CachesEnv == [pool |-> "caches", maxBuilds |-> MaxBuilds]

NamesEnv == [pool |-> "names", maxBuilds |-> 1]

ShapesEnv == [pool |-> "shapes", maxBuilds |-> 1]

TextureEnv == [inputs |-> "textures"]

InitTexture ==
  /\ variant \in Variants
  /\ env = TextureEnv
  /\ InitDownloads
  /\ InitNoScene
  /\ InitNoRender

\* A buffer of two positions (one quaternion and a half) of any coordinates.
CoordinateBuffers == [1..6 -> (-MaxCoordinate)..MaxCoordinate]

InitCoordinates ==
  /\ variant \in Variants
  /\ env \in {[buffer |-> buffer] : buffer \in CoordinateBuffers}
  /\ InitDownloads
  /\ InitNoScene
  /\ InitNoRender

MeshEnv == [inputs |-> "meshes"]

DragEnv == [inputs |-> "pointer events"]

InitDrag ==
  /\ variant \in Variants
  /\ env = DragEnv
  /\ InitDownloads
  /\ InitNoScene
  /\ graph = [pc |-> "idle", n |-> 0]
  /\ decode = [pc |-> "idle"]
  /\ target = [pc |-> "idle"]
  /\ assembly = [pc |-> "idle"]
  /\ drag = NewDragStateManager

InitMesh ==
  /\ variant \in Variants
  /\ env = MeshEnv
  /\ InitDownloads
  /\ InitNoScene
  /\ InitNoRender

InitGraph ==
  /\ variant \in Variants
  /\ env = GraphEnv
  /\ InitDownloads
  /\ InitNoScene
  /\ InitNoRender

InitLights ==
  /\ variant \in Variants
  /\ env = LightsEnv
  /\ InitDownloads
  /\ InitNoScene
  /\ InitNoRender

InitCaches ==
  /\ variant \in Variants
  /\ env = CachesEnv
  /\ InitDownloads
  /\ InitNoScene
  /\ InitNoRender

InitShapes ==
  /\ variant \in Variants
  /\ env = ShapesEnv
  /\ InitDownloads
  /\ InitNoScene
  /\ InitNoRender

InitNames ==
  /\ variant \in Variants
  /\ env = NamesEnv
  /\ InitDownloads
  /\ InitNoScene
  /\ InitNoRender

Init ==
  /\ variant \in Variants
  /\ env = ConcurrentEnv
  /\ InitDownloads
  /\ InitNoScene
  /\ InitNoRender

InitSingle ==
  /\ variant \in Variants
  /\ env = SingleEnv
  /\ InitDownloads
  /\ InitNoScene
  /\ InitNoRender

\* The steps of one download promise and of the call that created it.
DownloadStep ==
  \/ \E scenePath \in env.scenes : CallTrivial(scenePath)
  \/ \E scenePath \in env.scenes : CallStart(scenePath)
  \/ \E b \in 1..Len(batches) : AnalyzeDone(b)
  \/ \E b \in 1..Len(batches) : IndexDone(b)
  \/ \E b \in 1..Len(batches) : \E i \in 1..Len(batches[b].resp) : FetchRespond(b, i)
  \/ \E b \in 1..Len(batches) : Join(b)
  \/ \E b \in 1..Len(batches) : WriteStep(b)
  \/ \E c \in 1..Len(calls) : SettleInitiator(c)

Next ==
  \/ DownloadStep
  \/ \E scenePath \in env.scenes : CallShared(scenePath)
  \/ \E c \in 1..Len(calls) : SettleSharer(c)

\* Any number of callers, concurrently.
Spec == Init /\ [][Next]_vars

\* One call with every kind of manifest.
SpecSingle == InitSingle /\ [][DownloadStep]_vars

\* One loadSceneFromURL call after the other on one destination.
BuildStep ==
  \/ \E filename \in env.filenames : BuildBegin(filename)
  \/ BuildRelease
  \/ BuildCheck
  \/ BuildLoadModel
  \/ BuildMakeData
  \/ BuildAttach

SpecScene == InitScene /\ [][BuildStep]_vars

\* The scene graph of one model after the other.
GraphStep ==
  \/ GraphBegin
  \/ GeomStep
  \/ AddTendons
  \/ LightStep
  \/ LightFallback
  \/ CreateLights
  \/ BodyStep
  \/ GraphReturn

SpecGraph == InitGraph /\ [][GraphStep]_vars

SpecLights == InitLights /\ [][GraphStep]_vars

SpecCaches == InitCaches /\ [][GraphStep]_vars

SpecNames == InitNames /\ [][GraphStep]_vars

\* The steps of a build that has begun.
BuildRuns ==
  \/ GeomStep
  \/ AddTendons
  \/ LightStep
  \/ LightFallback
  \/ CreateLights
  \/ BodyStep
  \/ GraphReturn

\* The build is one synchronous call: once begun it runs on until it returns.
SpecShapes == InitShapes /\ [][GraphStep]_vars /\ WF_vars(BuildRuns)

\* One createTexture call.
TextureStep == CreateTexture

SpecTexture == InitTexture /\ [][TextureStep]_vars

\* Any sequence of calls of the coordinate functions on one target.
CoordinateStep ==
  \/ \E index \in 0..1, swizzle \in BOOLEAN : GetPosition(index, swizzle)
  \/ \E index \in 0..1, swizzle \in BOOLEAN : GetQuaternion(index, swizzle)
  \/ ToMujocoPos

SpecCoordinates == InitCoordinates /\ [][CoordinateStep]_vars

\* One mesh geometry.
MeshStep == AssembleMesh

\* Any sequence of pointer events.
DragStep ==
  \/ \E x \in 0..MaxPointer, intersects \in Intersects : PointerDown(x, intersects)
  \/ \E x \in 0..MaxPointer : PointerMove(x)
  \/ PointerUp

SpecDrag == InitDrag /\ [][DragStep]_vars

SpecMesh == InitMesh /\ [][MeshStep]_vars

(***************************************************************************)
(* Properties                                                              *)
(***************************************************************************)
CallSettled(c) == calls[c].state \in {"resolved", "rejected"}

\* c2 began while the batch serving c1 was still in flight, with c1's scene path.
Overlap(c1, c2) ==
  /\ c1 < c2
  /\ calls[c1].path = calls[c2].path
  /\ calls[c1].batch # 0
  /\ calls[c1].batch \in calls[c2].pendingAtStart

\* C1: (core) calls with the same scene path that overlap in time are served by
\* one download promise, so by one manifest discovery and one fetch per unique
\* asset, and they settle alike: all resolve, or all reject with the same error.
C1_OverlappingCallsShareOneBatch ==
  variant = "core" =>
    /\ \A c1 \in 1..Len(calls), c2 \in 1..Len(calls) :
         Overlap(c1, c2) =>
           /\ calls[c2].batch = calls[c1].batch
           /\ calls[c2].role = "sharer"
           /\ (CallSettled(c1) /\ CallSettled(c2)) =>
                /\ calls[c1].state = calls[c2].state
                /\ calls[c1].error = calls[c2].error
    /\ \A b \in 1..Len(batches) :
         /\ Cardinality({c \in 1..Len(calls) :
                          calls[c].batch = b /\ calls[c].role = "initiator"}) = 1
         /\ Len(batches[b].resp) = Len(batches[b].assets)
         /\ \A i \in 1..Len(batches[b].assets), j \in 1..Len(batches[b].assets) :
              i # j => batches[b].assets[i].normalizedPath # batches[b].assets[j].normalizedPath

C1_Witness ==
  /\ variant = "core"
  /\ \E c1 \in 1..Len(calls), c2 \in 1..Len(calls) :
       /\ Overlap(c1, c2)
       /\ calls[c1].state = "rejected" /\ calls[c2].state = "rejected"
       /\ calls[c1].error.kind = "fetchRejected"

\* C2: (core) a batch that is in flight or has succeeded keeps its memo entry;
\* once the call that created a batch has rejected the entry is gone, and no
\* call that begins after that is handed the rejected promise.
C2_MemoEvictedOnlyOnFailure ==
  variant = "core" =>
    /\ \A b \in 1..Len(batches) :
         batches[b].stage # "rejected" => <<batches[b].key, b>> \in memo
    /\ \A b \in FailedBatches : <<batches[b].key, b>> \notin memo
    /\ \A c \in 1..Len(calls) : calls[c].batch \notin calls[c].failedAtStart

C2_Witness ==
  /\ variant = "core"
  /\ \E c1 \in 1..Len(calls), c2 \in 1..Len(calls) :
       /\ calls[c1].path = calls[c2].path
       /\ calls[c1].batch \in calls[c2].failedAtStart
       /\ calls[c2].role = "initiator"
       /\ calls[c2].batch > calls[c1].batch

\* C3: (both variants) every call that is served by a download is served by the
\* download of its own scene file, also when another scene file of the same
\* directory was requested before.
C3_EverySceneFileHasItsOwnBatch ==
  \A c \in 1..Len(calls) :
    calls[c].batch # 0 =>
      NormalizedScenePath(batches[calls[c].batch].scene) = NormalizedScenePath(calls[c].path)

\* C4: index.json is fetched exactly when manifest analysis threw, returned no
\* array or returned an empty array; after a non-empty array it is not fetched
\* and that array is the manifest of the batch.
C4_FallbackIffAnalysisFails ==
  \A b \in 1..Len(batches) :
    batches[b].stage # "analyze" =>
      /\ batches[b].index # "none" <=>
           \/ batches[b].analysis \in AnalysisFaults
           \/ batches[b].analysis = "array" /\ batches[b].analysisResult = <<>>
      /\ (batches[b].analysis = "array" /\ batches[b].analysisResult # <<>>) =>
           /\ batches[b].index = "none"
           /\ batches[b].manifest = batches[b].analysisResult

C4_Witness ==
  \E b \in 1..Len(batches) :
    /\ batches[b].analysis = "array" /\ batches[b].analysisResult = <<>>
    /\ batches[b].index = "ok"
    /\ batches[b].manifest # <<>>
    /\ batches[b].stage = "fulfilled"

BothFailed(b) ==
  /\ batches[b].index \in IndexFaults
  /\ AnalysisFailed(batches[b].analysis, batches[b].analysisResult)

\* C5: when manifest analysis and the index.json fallback both fail, the batch
\* rejects, nothing is fetched or written, and the error carries the cause of
\* the analysis failure as well as the cause of the fallback failure.
C5_ErrorNamesBothCauses ==
  \A b \in 1..Len(batches) :
    BothFailed(b) =>
      /\ batches[b].stage = "rejected"
      /\ batches[b].assets = <<>> /\ batches[b].written = {}
      /\ batches[b].index \in batches[b].error.causes
      /\ AnalysisCause(batches[b]) \in batches[b].error.causes

\* C6: (core) a fetch that responds not ok, or that rejects, does not fail the
\* batch: the batch is never rejected for it, and once it has fulfilled every
\* asset with an ok response is written unless its write was logged as failed.
C6_FailedFetchDoesNotFailBatch ==
  variant = "core" =>
    \A b \in 1..Len(batches) :
      (\E i \in 1..Len(batches[b].resp) : batches[b].resp[i] \in {"notOk", "rejected"}) =>
        /\ batches[b].stage # "rejected"
        /\ batches[b].stage = "fulfilled" =>
             \A j \in 1..Len(batches[b].resp) :
               batches[b].resp[j] = "ok" => j \in batches[b].written \cup batches[b].writeErrors

\* The first entry of the manifest that can be fetched and normalizes to np.
FirstLocalEntryFor(batch, np) ==
  LET hits == {k \in 1..Len(batch.manifest) :
                 /\ IsLocalEntry(batch.manifest[k])
                 /\ NormalizedAssetPath(variant, batch.dir, batch.manifest[k].text) = np}
  IN  CHOOSE k \in hits : \A m \in hits : k <= m

\* C7: no manifest entry that starts with http:// or https:// is fetched, each
\* normalized asset path is fetched at most once, and the asset kept for a path
\* is the first manifest entry with that normalized path.
C7_LocalAssetsFetchedOnceFirstWins ==
  \A b \in 1..Len(batches) :
    LET batch == batches[b] IN
      /\ Len(batch.resp) = Len(batch.assets)
      /\ \A i \in 1..Len(batch.assets) :
           /\ ~StartsWith(batch.assets[i].originalPath, <<"http:", "/", "/">>)
           /\ ~StartsWith(batch.assets[i].originalPath, <<"https:", "/", "/">>)
           /\ batch.assets[i].originalPath =
                batch.manifest[FirstLocalEntryFor(batch, batch.assets[i].normalizedPath)].text
           /\ \A j \in 1..Len(batch.assets) :
                i # j => batch.assets[i].normalizedPath # batch.assets[j].normalizedPath

C7_Witness ==
  \E b \in 1..Len(batches) :
    /\ batches[b].stage = "fetch"
    /\ batches[b].manifest = <<Str(<<".", "/", "t", ".png">>), Str(<<"t", ".png">>)>>
    /\ Len(batches[b].assets) = 1
    /\ batches[b].assets[1].originalPath = <<".", "/", "t", ".png">>

\* C8: (core) two manifest entries that denote the same file once "." and ".."
\* segments are resolved are fetched once: no two fetched assets of a batch
\* resolve to the same path.
C8_DotSegmentsResolvedBeforeDedup ==
  variant = "core" =>
    \A b \in 1..Len(batches) :
      \A i \in 1..Len(batches[b].assets), j \in 1..Len(batches[b].assets) :
        i # j => normalizePathSegments(batches[b].assets[i].normalizedPath)
                   # normalizePathSegments(batches[b].assets[j].normalizedPath)

\* The build is past the cleanup at the top of loadSceneFromURL.
PastRelease == build.pc \in {"check", "load", "data", "attach", "done", "failed"}

\* C9: (core) once a build is past its cleanup, the model and the simulation
\* state the destination held before are each deleted exactly once if present,
\* a throwing delete() has not ended the build, the destination's references
\* are null until the new objects are attached, and nothing is deleted twice.
C9_PriorResourcesReleasedOnce ==
  (variant = "core" /\ PastRelease) =>
    /\ build.prior.mjModel # NULL => natives[build.prior.mjModel].deletes = 1
    /\ build.prior.mjData # NULL => natives[build.prior.mjData].deletes = 1
    /\ build.error.kind # "deleteThrew"
    /\ build.pc \in {"check", "load", "data", "attach"} =>
         parent.mjModel = NULL /\ parent.mjData = NULL
    /\ \A h \in 1..Len(natives) : natives[h].deletes <= 1

C9_Witness ==
  /\ variant = "core"
  /\ build.pc = "load"
  /\ build.prior.mjModel # NULL /\ build.prior.mjData = NULL
  /\ build.deleteThrew
  /\ build.n = 1

\* C10: (core) when the normalized scene file is not in the virtual filesystem
\* the build fails with an error that names the model path; the model loader
\* and the simulation-state constructor are not called and no root group is
\* added to the destination scene.
C10_MissingSceneFileFailsFast ==
  (variant = "core" /\ PastRelease /\ build.pc # "check"
     /\ ~SceneFileExists(fs, build.filename)) =>
    /\ build.pc = "failed"
    /\ build.error.kind = "notAccessible"
    /\ build.error.path = ModelPath(build.filename)
    /\ build.loads = 0 /\ build.datas = 0
    /\ build.newModel = NULL /\ build.newData = NULL
    /\ Len(parent.scene) = build.rootsBefore

C10_Witness ==
  /\ variant = "core"
  /\ build.pc = "failed"
  /\ build.exists = "no"
  /\ build.n = 2 /\ build.rootsBefore = 1
  /\ build.filename = SceneB

LoadOrDataFailed ==
  /\ build.pc = "failed"
  /\ build.error.kind \in {"loadThrew", "loadNull", "dataThrew", "dataNull"}

\* C11: (core) a build whose model load threw or returned null, or whose
\* simulation state construction threw or returned null, has rejected; a model
\* loaded in this build has been deleted exactly once; the destination holds no
\* model and no simulation state and has no root group of this build.  A build
\* that goes on to attach has a model and a simulation state.
C11_FailedAllocationLeavesNothingBehind ==
  variant = "core" =>
    /\ LoadOrDataFailed =>
         /\ parent.mjModel = NULL /\ parent.mjData = NULL
         /\ Len(parent.scene) = build.rootsBefore
         /\ build.newData = NULL
         /\ build.newModel # NULL => natives[build.newModel].deletes = 1
         /\ build.error.kind \in {"loadThrew", "loadNull"} => build.newModel = NULL
         /\ build.error.kind \in {"dataThrew", "dataNull"} => build.newModel # NULL
    /\ build.pc \in {"attach", "done"} =>
         /\ build.newModel # NULL /\ build.newData # NULL
         /\ natives[build.newModel].deletes = 0

C11_Witness ==
  /\ variant = "core"
  /\ LoadOrDataFailed
  /\ build.error.kind = "dataNull"
  /\ build.n = 2 /\ build.rootsBefore = 1
  /\ natives[build.newModel].deletes = 1

\* The geometry pass made a node for body b.
OwnsRenderedGeometry(b) ==
  \E i \in 1..Len(graph.model.geoms) :
    graph.model.geoms[i].bodyid = b /\ graph.model.geoms[i].group < 3

\* C12: (core) the body map returned for a model with N bodies has a node for
\* every id in [0, N), also when body 0 owns no rendered geometry; body 0 is a
\* child of the root group and every other body is a child of body 0.
C12_BodyTreeIsTotal ==
  (variant = "core" /\ graph.pc = "done") =>
    /\ DOMAIN graph.bodies = 0..(graph.model.nbody - 1)
    /\ \A b1 \in DOMAIN graph.bodies, b2 \in DOMAIN graph.bodies :
         b1 # b2 => graph.bodies[b1] # graph.bodies[b2]
    /\ \A b \in DOMAIN graph.bodies : graph.bodies[b] \in DOMAIN graph.parentOf
    /\ graph.parentOf[graph.bodies[0]] = graph.root
    /\ \A b \in 1..(graph.model.nbody - 1) :
         graph.parentOf[graph.bodies[b]] = graph.bodies[0]

\* The rendered meshes of mesh-type geometries that reference mesh id m.
MeshesOf(m) ==
  {k \in 1..Len(graph.rendered) :
     LET geom == graph.model.geoms[graph.rendered[k].g + 1]
     IN  geom.type = "mesh" /\ geom.dataid = m}

\* C13: within one build the geometry of a mesh id is built once, while the
\* first rendered mesh-type geometry that references it is processed; every
\* geometry referencing the mesh id holds that very object; and the vertices
\* of the mesh have been swizzled once, those of an unused mesh not at all.
C13_MeshGeometryBuiltOnce ==
  graph.pc # "idle" =>
    \A m \in 0..(Len(graph.model.mesh_vert) - 1) :
      /\ m \in DOMAIN graph.meshes <=> MeshesOf(m) # {}
      /\ \A k \in MeshesOf(m) : graph.rendered[k].geometry = graph.meshes[m]
      /\ MeshesOf(m) # {} =>
           LET first == CHOOSE k \in MeshesOf(m) : \A i \in MeshesOf(m) : k <= i
           IN  /\ graph.meshes[m][1] = graph.n
               /\ graph.meshes[m][2] < graph.rendered[first].id[2]
               /\ \A j \in 1..(first - 1) :
                    graph.rendered[j].id[2] < graph.meshes[m][2]
      /\ graph.mesh_vert[m + 1] =
           IF m \in DOMAIN graph.meshes
           THEN SwizzledVertex(graph.model.mesh_vert[m + 1])
           ELSE graph.model.mesh_vert[m + 1]

C13_Witness ==
  /\ graph.pc = "done"
  /\ Cardinality(MeshesOf(0)) = 2
  /\ \E j \in MeshesOf(0), k \in MeshesOf(0) :
       /\ graph.rendered[j].body # graph.rendered[k].body
       /\ graph.rendered[j].geometry = graph.rendered[k].geometry
  /\ graph.mesh_vert[1] = <<1, 3, -2>>

\* The object was created by the running (or last) build.
OfThisBuild(id) == id[1] = graph.n

\* C14: the mesh, texture and material caches are empty when the geometry pass
\* of a call begins and only ever hold objects of that call; the geometry, the
\* material and the texture map of every mesh were created by the call that
\* created the mesh, also when an earlier call built a model with the same ids.
C14_CachesArePerBuild ==
  graph.pc # "idle" =>
    /\ (graph.pc = "geoms" /\ graph.g = 0) =>
         graph.meshes = <<>> /\ graph.textureCache = <<>> /\ graph.materialCache = <<>>
    /\ \A m \in DOMAIN graph.meshes : OfThisBuild(graph.meshes[m])
    /\ \A t \in DOMAIN graph.textureCache : OfThisBuild(graph.textureCache[t])
    /\ \A i \in DOMAIN graph.materialCache :
         /\ OfThisBuild(graph.materialCache[i].id)
         /\ graph.materialCache[i].map = NoObject \/ OfThisBuild(graph.materialCache[i].map)
    /\ \A k \in 1..Len(graph.rendered) :
         /\ OfThisBuild(graph.rendered[k].id)
         /\ OfThisBuild(graph.rendered[k].geometry)
         /\ graph.rendered[k].kind = "reflector" \/ OfThisBuild(graph.rendered[k].material.id)
         /\ graph.rendered[k].material.map = NoObject
              \/ OfThisBuild(graph.rendered[k].material.map)

C14_Witness ==
  /\ graph.pc = "done"
  /\ graph.n = 2
  /\ 0 \in graph.earlierMeshes
  /\ \E k \in 1..Len(graph.rendered) :
       /\ graph.model.geoms[graph.rendered[k].g + 1].dataid = 0
       /\ graph.rendered[k].material.matId = 0
       /\ graph.rendered[k].material.map # NoObject

\* The call decoded a 2D texture whose run of tex_data is wholly in the buffer.
DecodedInput ==
  /\ decode.pc = "done"
  /\ decode.input.hasModel /\ decode.input.texId = 0
  /\ decode.input.tex_type \in {"2d", "missing"}
  /\ decode.input.tex_width[1] > 0 /\ decode.input.tex_height[1] > 0
  /\ decode.input.tex_nchannel[1] \in 1..4
  /\ decode.input.hasData
  /\ Len(decode.input.tex_data) >=
       decode.input.tex_adr[1]
         + decode.input.tex_width[1] * decode.input.tex_height[1] * decode.input.tex_nchannel[1]

\* Byte c (0..3) of pixel p of the output, as the expansion rules give it.
ExpectedByte(p, c) ==
  LET nchannel == decode.input.tex_nchannel[1]
      at == decode.input.tex_adr[1] + p * nchannel
      source(k) == decode.input.tex_data[at + k + 1]
  IN  IF nchannel = 1 THEN (IF c < 3 THEN source(0) ELSE 255)
      ELSE IF nchannel = 2 THEN (IF c < 3 THEN source(0) ELSE source(1))
      ELSE IF nchannel = 3 THEN (IF c < 3 THEN source(c) ELSE 255)
      ELSE source(c)

\* C15: for a channel count n in 1..4 and a source run of width*height*n
\* bytes, create2DTexture yields width*height*4 bytes, pixel by pixel in source
\* order: (L,L,L,255) for n = 1, (L,L,L,A) for n = 2, (R,G,B,255) for n = 3,
\* and the four source bytes for n = 4.
C15_ChannelsExpandToRGBA ==
  DecodedInput =>
    LET pixelCount == decode.input.tex_width[1] * decode.input.tex_height[1] IN
      /\ decode.result # NoTexture
      /\ decode.result.width = decode.input.tex_width[1]
      /\ decode.result.height = decode.input.tex_height[1]
      /\ Len(decode.result.data) = pixelCount * 4
      /\ \A p \in 0..(pixelCount - 1), c \in 0..3 :
           decode.result.data[4 * p + c + 1] = ExpectedByte(p, c)

C15_Witness ==
  /\ DecodedInput
  /\ decode.input.tex_nchannel[1] = 2
  /\ decode.input.tex_adr[1] = 1
  /\ decode.input.tex_width[1] = 2 /\ decode.input.tex_height[1] = 2
  /\ decode.result.data[5] = Byte(4) /\ decode.result.data[8] = Byte(5)

\* The byte count of the texture's run, address included.
RunEnd(input) ==
  ElementOrZero(input.tex_adr, input.texId)
    + ElementOrZero(input.tex_width, input.texId)
        * ElementOrZero(input.tex_height, input.texId)
        * ElementOrZero(input.tex_nchannel, input.texId)

\* C16: createTexture returns (it has no throwing path) and returns no texture,
\* having read no byte of the source buffer, whenever the texture id is
\* negative, the width or the height is zero, the channel count is outside
\* 1..4, or the buffer is shorter than address + width*height*channelCount;
\* and no call reads an index outside the buffer.
C16_InvalidTextureYieldsNone ==
  decode.pc = "done" =>
    /\ decode.reads \subseteq 0..(Len(decode.input.tex_data) - 1)
    /\ (\/ decode.input.texId < 0
        \/ ElementOrZero(decode.input.tex_width, decode.input.texId) = 0
        \/ ElementOrZero(decode.input.tex_height, decode.input.texId) = 0
        \/ ElementOrZero(decode.input.tex_nchannel, decode.input.texId) \notin 1..4
        \/ Len(decode.input.tex_data) < RunEnd(decode.input)) =>
         decode.result = NoTexture /\ decode.reads = {}

C16_Witness ==
  /\ decode.pc = "done"
  /\ decode.input.hasModel /\ decode.input.texId = 0 /\ decode.input.hasData
  /\ decode.input.tex_width[1] = 2 /\ decode.input.tex_height[1] = 1
  /\ decode.input.tex_nchannel[1] = 3 /\ decode.input.tex_adr[1] = 1
  /\ Len(decode.input.tex_data) = 6
  /\ decode.result = NoTexture

\* The geometry that rendered mesh k was made for.
GeomOf(k) == graph.model.geoms[graph.rendered[k].g + 1]

\* C17: (wasm) two geometries of one build with the same material id and
\* identical geometry colors are given the same material instance.
C17_SameMaterialSameColorSameInstance ==
  (variant = "wasm" /\ graph.pc # "idle") =>
    \A j \in 1..Len(graph.rendered), k \in 1..Len(graph.rendered) :
      (/\ graph.rendered[j].kind = "mesh" /\ graph.rendered[k].kind = "mesh"
       /\ GeomOf(j).matid >= 0
       /\ GeomOf(j).matid = GeomOf(k).matid
       /\ GeomOf(j).rgba = GeomOf(k).rgba) =>
        graph.rendered[j].material.id = graph.rendered[k].material.id

\* The entries of the light list made from records of the light table.
FromLightTable == {k \in 1..Len(graph.lights) : graph.lights[k].record >= 0}

\* The fallback lights in the light list.
Fallbacks ==
  {k \in 1..Len(graph.lights) :
     graph.lights[k].kind = "directional" /\ graph.lights[k].record = -1}

\* C18: (wasm) once the light pass is over, the light list of a model whose
\* light table yielded no light holds exactly one directional light, the
\* fallback; the list of a model whose table yielded a light holds no fallback.
C18_OneFallbackIffNoLights ==
  (variant = "wasm" /\ graph.pc \in {"bodies", "done"}) =>
    /\ FromLightTable = {} =>
         /\ Cardinality(Fallbacks) = 1
         /\ {k \in 1..Len(graph.lights) : graph.lights[k].kind = "directional"} = Fallbacks
    /\ FromLightTable # {} => Fallbacks = {}
    /\ FromLightTable = {} <=> ~LightTableReadable(graph.model)

C18_Witness ==
  /\ variant = "wasm"
  /\ graph.pc = "done"
  /\ graph.model.lights = <<>>
  /\ Cardinality(Fallbacks) = 1
  /\ Len(graph.lights) = 2

\* The lights in the light list that stand for a record of the light table
\* (not the ambient lights made for the records' ambient colors).
RecordLights ==
  {k \in FromLightTable : graph.lights[k].kind # "ambient"}

\* C19: in the returned scene graph, the light of every record whose owning
\* body id b is in [0, nbody) is a child of the node of body b, also when that
\* node was only synthesized while the body tree was assembled; the light of
\* a record with no owning body is a child of the root group.
C19_LightsFollowTheirBody ==
  graph.pc = "done" =>
    \A k \in RecordLights :
      LET b == graph.model.lights[graph.lights[k].record + 1].bodyid IN
        /\ b \in 0..(graph.model.nbody - 1) =>
             /\ b \in DOMAIN graph.bodies
             /\ graph.parentOf[graph.lights[k].id] = graph.bodies[b]
        /\ b = -1 => graph.parentOf[graph.lights[k].id] = graph.root

\* The position stored at the index the target was last read from.
StoredPosition ==
  <<env.buffer[(target.index * 3) + 1], env.buffer[(target.index * 3) + 2],
    env.buffer[(target.index * 3) + 3]>>

\* C20: getPosition with swizzle yields (x, z, -y) for the position (x, y, z)
\* stored at the index; toMujocoPos applied to that result yields (x, y, z);
\* getPosition and getQuaternion without swizzle yield the stored components.
C20_SwizzleAndBack ==
  /\ (target.pc = "position" /\ target.swizzle) =>
       target.value = <<StoredPosition[1], StoredPosition[3], -StoredPosition[2]>>
  /\ (target.pc = "mujoco" /\ target.after = "position" /\ target.swizzle) =>
       target.value = StoredPosition
  /\ (target.pc = "position" /\ ~target.swizzle) => target.value = StoredPosition
  /\ (target.pc = "quaternion" /\ ~target.swizzle) =>
       target.value = SubSeq(env.buffer, (target.index * 4) + 1, (target.index * 4) + 4)

C20_Witness ==
  /\ target.pc = "mujoco" /\ target.after = "position" /\ target.swizzle
  /\ target.index = 1
  /\ target.value = <<0, 1, -1>>

(***************************************************************************)
(* C21  Every body node carries the name that the name blob holds at the   *)
(* body's name offset, whether the node was made in the geometry pass or   *)
(* synthesized in the body loop, and that name is not empty.               *)
(***************************************************************************)
\* The string that starts at the name offset of body b and ends before the
\* next zero byte.
BlobName(model, b) ==
  LET from == model.name_bodyadr[b + 1]
      ends == {e \in from..Len(model.names) :
                 /\ \A i \in (from + 1)..e : model.names[i] # 0
                 /\ e = Len(model.names) \/ model.names[e + 1] = 0}
  IN  SubSeq(model.names, from + 1, CHOOSE e \in ends : TRUE)

NamesFollowTheBlob ==
  \A b \in DOMAIN graph.nameOf : graph.nameOf[b] = BlobName(graph.model, b)

\* The statement of the claim: the name of the blob, and not empty.
C21_BodyNamesFromBlobNonEmpty ==
  variant = "core" /\ graph.pc # "idle" =>
    /\ NamesFollowTheBlob
    /\ \A b \in DOMAIN graph.nameOf : graph.nameOf[b] # <<>>

\* C21 as it holds: every body node carries the name of the blob at its name
\* offset, which is empty exactly when the model gives the body no name.
C21_BodyNamesFromBlob ==
  variant = "core" /\ graph.pc # "idle" =>
    /\ DOMAIN graph.nameOf = DOMAIN graph.bodies
    /\ NamesFollowTheBlob

\* A finished core build with a node of the geometry pass and a synthesized
\* node, both named.
C21_Witness ==
  /\ variant = "core"
  /\ graph.pc = "done"
  /\ graph.synthesized # {}
  /\ \E b \in DOMAIN graph.bodies : b \notin graph.synthesized
  /\ \A b \in DOMAIN graph.nameOf : graph.nameOf[b] # <<>>

(***************************************************************************)
(* C22  core: the UV (and normal) of a vertex that is a corner of a face   *)
(* is the source UV (normal) addressed by the UV (normal) index of the     *)
(* last face corner with that vertex index; a vertex of no face gets       *)
(* zeros; the index buffer is the sequence of the faces' vertex indices.   *)
(***************************************************************************)
AssembledMesh == assembly.mesh.meshID + 1

Corners == (0..(assembly.mesh.mesh_facenum[AssembledMesh] - 1)) \X (0..2)

\* The entry of a face table for a corner <<face, corner of the face>>.
CornerEntry(table, tc) ==
  table[((assembly.mesh.mesh_faceadr[AssembledMesh] + tc[1]) * 3) + tc[2] + 1]

VertexOf(tc) == CornerEntry(assembly.mesh.mesh_face, tc)

CornersOf(v) == {tc \in Corners : VertexOf(tc) = v}

LastCornerOf(v) ==
  CHOOSE tc \in CornersOf(v) :
    \A other \in CornersOf(v) : (other[1] * 3) + other[2] <= (tc[1] * 3) + tc[2]

VerticesOfMesh == 0..(assembly.mesh.mesh_vertnum[AssembledMesh] - 1)

SourceUV(uvi) ==
  LET at == (assembly.mesh.mesh_texcoordadr[AssembledMesh] + uvi) * 2
  IN  <<assembly.mesh.mesh_texcoord[at + 1], assembly.mesh.mesh_texcoord[at + 2]>>

\* The normal of the model, in the render convention.
SourceNormal(ni) ==
  LET at == (assembly.mesh.mesh_normaladr[AssembledMesh] + ni) * 3
  IN  <<assembly.mesh.mesh_normal[at + 1], assembly.mesh.mesh_normal[at + 3],
        -assembly.mesh.mesh_normal[at + 2]>>

UVsFollowLastCorner ==
  \A v \in VerticesOfMesh :
    SubSeq(assembly.geometry.uv, (v * 2) + 1, (v * 2) + 2)
      = IF CornersOf(v) = {} THEN <<0, 0>>
        ELSE SourceUV(CornerEntry(assembly.mesh.mesh_facetexcoord, LastCornerOf(v)))

NormalsFollowLastCorner(normal) ==
  \A v \in VerticesOfMesh :
    SubSeq(normal, (v * 3) + 1, (v * 3) + 3)
      = IF CornersOf(v) = {} THEN <<0, 0, 0>>
        ELSE SourceNormal(CornerEntry(assembly.mesh.mesh_facenormal, LastCornerOf(v)))

IndexIsFaceTriples ==
  /\ Len(assembly.geometry.index) = 3 * assembly.mesh.mesh_facenum[AssembledMesh]
  /\ \A tc \in Corners : assembly.geometry.index[(tc[1] * 3) + tc[2] + 1] = VertexOf(tc)

Dot(a, b) == (a[1] * b[1]) + (a[2] * b[2]) + (a[3] * b[3])

\* The normal attribute is computed from the positions and the faces: zero at
\* a vertex of no face, and at the corners of a mesh of one face at a right
\* angle to the edges of that face.
NormalsAreRecomputed ==
  LET position(v) == SubSeq(assembly.geometry.position, (v * 3) + 1, (v * 3) + 3)
      normal(v) == SubSeq(assembly.geometry.normal, (v * 3) + 1, (v * 3) + 3)
  IN  /\ \A v \in VerticesOfMesh : CornersOf(v) = {} => normal(v) = <<0, 0, 0>>
      /\ assembly.mesh.mesh_facenum[AssembledMesh] = 1 =>
            \A a \in Corners, b \in Corners, c \in Corners :
              Dot(normal(VertexOf(a)),
                  Minus(position(VertexOf(b)), position(VertexOf(c)))) = 0

\* The statement of the claim: the emitted normal attribute is scattered too.
C22_AttributesScatteredByFaceCorner ==
  variant = "core" /\ assembly.pc = "done" =>
    /\ UVsFollowLastCorner
    /\ NormalsFollowLastCorner(assembly.geometry.normal)
    /\ IndexIsFaceTriples

\* C22 as it holds: the UVs and the index buffer are as stated; the normals are
\* scattered in the same way into a buffer whose content computeVertexNormals
\* then replaces by normals computed from the positions and the faces.
C22_UVsScatteredNormalsRecomputed ==
  variant = "core" /\ assembly.pc = "done" =>
    /\ UVsFollowLastCorner
    /\ NormalsFollowLastCorner(assembly.geometry.scattered)
    /\ NormalsAreRecomputed
    /\ IndexIsFaceTriples

\* A core mesh with a vertex that is a corner of two faces with different UV
\* indices, and a vertex of no face.
C22_Witness ==
  /\ variant = "core"
  /\ assembly.pc = "done"
  /\ \E v \in VerticesOfMesh : CornersOf(v) = {}
  /\ \E v \in VerticesOfMesh : \E a \in CornersOf(v), b \in CornersOf(v) :
       /\ a[1] # b[1]
       /\ CornerEntry(assembly.mesh.mesh_facetexcoord, a)
            # CornerEntry(assembly.mesh.mesh_facetexcoord, b)
       /\ VertexOf(a) # CornerEntry(assembly.mesh.mesh_facetexcoord, a)

(***************************************************************************)
(* C23  The buffers of the physics model are only read: after a build,     *)
(* every element of the model's mesh vertex buffer and of its mesh normal  *)
(* buffer has the value it had before the build.                           *)
(***************************************************************************)
C23_ModelBuffersUnchanged ==
  graph.pc = "done" =>
    /\ graph.mesh_vert = graph.model.mesh_vert
    /\ graph.mesh_normal = graph.model.mesh_normal

\* The same for the builds that render no mesh geometry.
C23_UnchangedWithoutMesh ==
  graph.pc = "done" /\ DOMAIN graph.meshes = {} =>
    /\ graph.mesh_vert = graph.model.mesh_vert
    /\ graph.mesh_normal = graph.model.mesh_normal

(***************************************************************************)
(* C24  wasm: a geometry whose color differs from the base color of its    *)
(* material gets a clone of the cached material with the geometry's color  *)
(* and opacity and the very map of the cached material; the cached         *)
(* material of a material id is never modified: its color, opacity and map *)
(* stay those it was built with.                                           *)
(***************************************************************************)
\* The rendered meshes whose geometry names material id i.
RenderedWith(i) ==
  {k \in 1..Len(graph.rendered) :
     graph.rendered[k].kind = "mesh" /\ GeomOf(k).matid = i}

IsClone(k) == graph.rendered[k].material.base # NoObject

SupportedTypes == {"plane", "sphere", "capsule", "ellipsoid", "cylinder", "box", "mesh"}

\* The geometries that the loop has been through.
ProcessedGeoms == 0..(graph.g - 1)

MeshesOfGeom(g) == {k \in 1..Len(graph.rendered) : graph.rendered[k].g = g}

C25_MeshIffRenderedGroupAndSupported ==
  (variant = "core" /\ graph.pc # "idle") =>
    /\ \A g \in ProcessedGeoms :
         LET geom == graph.model.geoms[g + 1]
         IN  /\ Cardinality(MeshesOfGeom(g))
                  = IF geom.group < 3 /\ geom.type \in SupportedTypes THEN 1 ELSE 0
             /\ \A k \in MeshesOfGeom(g) :
                  /\ graph.rendered[k].body = geom.bodyid
                  /\ geom.bodyid \in DOMAIN graph.bodies
                  /\ graph.parentOf[graph.rendered[k].id] = graph.bodies[geom.bodyid]
    /\ \A k \in 1..Len(graph.rendered) : graph.rendered[k].g \in ProcessedGeoms
    /\ graph.pc = "geoms" =>
         DOMAIN graph.bodies
           = {graph.model.geoms[g + 1].bodyid :
                g \in {h \in ProcessedGeoms : graph.model.geoms[h + 1].group < 3}}

\* The geometry pass of a core build is over: a hidden box left its body
\* without a node, a box on the other body was rendered.
C25_Witness ==
  /\ variant = "core"
  /\ graph.pc = "lights"
  /\ \E g \in ProcessedGeoms, h \in ProcessedGeoms :
       /\ graph.model.geoms[g + 1].group = 3
       /\ graph.model.geoms[g + 1].bodyid \notin DOMAIN graph.bodies
       /\ graph.model.geoms[h + 1].group = 0
       /\ graph.model.geoms[h + 1].type = "box"
       /\ MeshesOfGeom(h) # {}

(***************************************************************************)
(* C26  core: a geometry of height-field type or of an unrecognized type   *)
(* yields no mesh and raises no error: the build goes on through every     *)
(* remaining geometry and completes.                                       *)
(***************************************************************************)
Unsupported(g) == graph.model.geoms[g + 1].type \in {"hfield", "unrecognized"}

BuildHasUnsupported ==
  /\ variant = "core"
  /\ graph.pc = "geoms"
  /\ \E g \in 0..(Len(graph.model.geoms) - 1) :
       Unsupported(g) /\ graph.model.geoms[g + 1].group < 3

BuildComplete ==
  /\ graph.pc = "done"
  /\ graph.g = Len(graph.model.geoms)
  /\ \A g \in ProcessedGeoms :
       (~Unsupported(g) /\ graph.model.geoms[g + 1].group < 3) => MeshesOfGeom(g) # {}

C26_UnsupportedShapeSkippedBuildCompletes ==
  /\ []((variant = "core" /\ graph.pc # "idle") =>
          \A g \in ProcessedGeoms : Unsupported(g) => MeshesOfGeom(g) = {})
  /\ (BuildHasUnsupported ~> BuildComplete)

\* A finished core build that skipped a height field and then rendered a box.
C26_Witness ==
  /\ variant = "core"
  /\ BuildComplete
  /\ \E g \in ProcessedGeoms, h \in ProcessedGeoms :
       /\ g < h
       /\ graph.model.geoms[g + 1].type = "hfield"
       /\ graph.model.geoms[g + 1].group < 3
       /\ MeshesOfGeom(g) = {}
       /\ MeshesOfGeom(h) # {}

(***************************************************************************)
(* C28  DragStateManager, after any sequence of pointerdown, pointermove   *)
(* and pointerup events (two pointerdown events without a pointerup in     *)
(* between included): controls.enabled is the negation of active, the      *)
(* arrow is visible exactly when active, and active implies that           *)
(* physicsObject is an object with bodyID > 0; after a pointerup, active   *)
(* is false, physicsObject is null and the controls are enabled.           *)
(***************************************************************************)
ControlsAndArrowFollowActive ==
  /\ drag.controls.enabled = ~drag.active
  /\ drag.arrow.visible = drag.active

IdleAfterPointerUp ==
  drag.pc = "pointerup" =>
    ~drag.active /\ drag.physicsObject = <<>> /\ drag.controls.enabled

C28_DragStateConsistent ==
  drag.pc # "idle" =>
    /\ ControlsAndArrowFollowActive
    /\ drag.active => (drag.physicsObject # <<>> /\ Draggable(drag.physicsObject[1]))
    /\ IdleAfterPointerUp

\* The parts of C28 that hold in every state.
C28_ControlsArrowAndPointerUp ==
  drag.pc # "idle" =>
    /\ ControlsAndArrowFollowActive
    /\ drag.physicsObject # <<>> => (drag.active /\ Draggable(drag.physicsObject[1]))
    /\ IdleAfterPointerUp

(***************************************************************************)
(* C27: fetch all, join, write, resolve                                    *)
(***************************************************************************)
\* The batch has passed the line that maps the unique assets to requests.
RequestsIssued(batch) ==
  batch.stage \in {"fetch", "write", "fulfilled"} \/ batch.error.kind = "fetchRejected"

\* The loop over the responses has begun for the batch.
WritingBegun(batch) ==
  batch.stage = "write" \/ batch.written # {} \/ batch.writeErrors # {}

Responded(batch) ==
  \A i \in 1..Len(batch.resp) : batch.resp[i] \in {"ok", "notOk"}

\* The files below /working that are no directories.
WrittenFiles ==
  {path \in DOMAIN fs : fs[path] \in {"binary", "text"}}

\* C27: every fetch of a batch is issued before a response is awaited (one
\* request per unique asset exists as soon as the batch waits for responses), no
\* file is written before every fetch of the batch has responded, and a call
\* resolves only after every asset whose response was ok has been written or its
\* write error logged.
C27_FetchAllJoinWriteResolve ==
  /\ \A b \in 1..Len(batches) :
       LET batch == batches[b] IN
         /\ RequestsIssued(batch) =>
              /\ batch.assets = UniqueAssets(variant, batch.dir, batch.manifest)
              /\ DOMAIN batch.resp = DOMAIN batch.assets
         /\ ~RequestsIssued(batch) => batch.resp = <<>>
         /\ WritingBegun(batch) => Responded(batch)
         /\ \A i \in batch.written \cup batch.writeErrors : batch.resp[i] = "ok"
  /\ WrittenFiles # {} => \E b \in 1..Len(batches) : Responded(batches[b]) /\ batches[b].written # {}
  /\ \A c \in 1..Len(calls) :
       (calls[c].state = "resolved" /\ calls[c].batch # 0) =>
         LET batch == batches[calls[c].batch] IN
           /\ batch.stage = "fulfilled"
           /\ \A i \in 1..Len(batch.resp) :
                batch.resp[i] = "ok" => i \in batch.written \cup batch.writeErrors

\* A call over two assets resolved: one was written, the write of the other failed
\* and was logged.
C27_Witness ==
  \E c \in 1..Len(calls) :
    /\ calls[c].state = "resolved" /\ calls[c].batch # 0
    /\ LET batch == batches[calls[c].batch] IN
         /\ Len(batch.resp) = 2
         /\ batch.written # {} /\ batch.writeErrors # {}

(***************************************************************************)
(* C29: the root groups of the destination scene                           *)
(***************************************************************************)
\* C29: after any sequence of loadSceneFromURL calls on one destination the scene
\* holds at most one 'MuJoCo Root' group, and after a successful build exactly
\* the one that build created: no root group of an earlier build is left.
C29_ExactlyOneRoot ==
  /\ Len(parent.scene) <= 1
  /\ build.pc = "done" => parent.scene = <<build.n>>

(***************************************************************************)
(* C30: calls after a success, and calls without a directory               *)
(***************************************************************************)
\* Batch b had fulfilled when call c began: it is no batch the call created, it
\* was not pending then, and a fulfilled batch stays fulfilled.
SucceededBefore(b, c) ==
  /\ batches[b].stage = "fulfilled"
  /\ b \notin calls[c].pendingAtStart
  /\ b <= calls[c].batch
  /\ calls[c].role = "initiator" => b < calls[c].batch

HasNoDirectory(scenePath) == scenePath = <<>> \/ XmlDirectory(scenePath) = <<>>

\* C30: (core) a call for scene path P that begins after the batch for P has
\* succeeded takes the stored promise: it creates no batch of its own, so it runs
\* no discovery, issues no fetch and writes nothing, and it never rejects.  A call
\* whose scene path is empty or has no directory resolves at once with no batch
\* and no memo entry for its path.
C30_SucceededBatchReusedTrivialCallsInert ==
  variant = "core" =>
    /\ \A c \in 1..Len(calls) : \A b \in 1..Len(batches) :
         (/\ ~HasNoDirectory(calls[c].path)
          /\ batches[b].key = CacheKey(variant, calls[c].path)
          /\ SucceededBefore(b, c)) =>
           /\ calls[c].role = "sharer"
           /\ calls[c].batch = b
           /\ calls[c].state \in {"sharing", "resolved"}
           /\ \A d \in 1..Len(batches) : d > b => batches[d].key # batches[b].key
    /\ \A c \in 1..Len(calls) :
         HasNoDirectory(calls[c].path) =>
           /\ calls[c].state = "resolved"
           /\ calls[c].batch = 0
           /\ ~MemoHas(CacheKey(variant, calls[c].path))
           /\ \A b \in 1..Len(batches) : batches[b].scene # calls[c].path

\* A second call for a scene whose asset was fetched and written before the call
\* began has resolved on the first call's batch.
C30_Witness ==
  /\ variant = "core"
  /\ Len(calls) = 2 /\ Len(batches) = 1
  /\ calls[1].path = calls[2].path
  /\ calls[2].pendingAtStart = {}
  /\ calls[2].state = "resolved"
  /\ batches[1].written # {}

====
